---- MODULE Spec2Model ----
(***************************************************************************)
(* Verification model of the unified title/classification pipeline         *)
(* (src/src/generate_titles_and_classify.py) of DataTalksClub-Projects.    *)
(*                                                                         *)
(* Specifications in this module:                                          *)
(*   SpecItem : process_single_project applied to one row, for every row   *)
(*              shape and every answer of the Analyzer and the LLM client. *)
(*   Spec     : one run of main(): environment check, CSV load, fan-out    *)
(*              to the worker pool, merge loop, clean-up and save.         *)
(***************************************************************************)
EXTENDS Integers, Sequences, FiniteSets, TLC

VARIABLES
    env,          \* os.environ: the two credentials, each "unset", "empty" or "set"
    limit,        \* config['limit'] (--limit)
    inputCsv,     \* the file at cleaned_csv_path: sequence of rows
    outputCsv,    \* the file at deploy_csv_path: whether it exists, and its rows
    df,           \* csv_handler.df, the shared ProjectRecord table
    work_items,   \* the rows captured by df.iterrows() when the work is submitted
    futures,      \* one record per submitted work item
    mainPc,       \* position of the main thread in main()
    cur,          \* index of the future the as_completed loop is handling (0: none)
    dfLock,       \* holder of _df_lock ("free" or a thread)
    counterLock,  \* holder of Counter._lock ("free" or a thread)
    counter,      \* Counter: success, skip, error
    raised,       \* variables named by the EnvironmentError main raised (<<>>: none)
    run,          \* how many times main() has been started
    threads,      \* the threads of the Counter thread-safety test (<<>>: none)
    call          \* the frame of a library function called on its own (NoCall: none)

\* The state of a run of main().
mainVars == <<env, limit, inputCsv, outputCsv, df, work_items, futures, mainPc, cur,
              dfLock, counterLock, counter, raised, run, threads>>

vars == <<mainVars, call>>

\* No library function is being called on its own.
NoCall == [fn |-> "none"]

----------------------------------------------------------------------------
(* Cell values.  Every cell is a string; three markers stand for non-strings. *)

\* Python None: what main() writes into a column the CSV does not have.
NONE == "<None>"
\* float NaN: what pandas.read_csv yields for an empty cell of an existing column.
NAN == "<NaN>"
\* The column is not in the table at all.
ABSENT == "<absent>"

\* pd.isnull / pd.notnull
IsNull(v) == v \in {NONE, NAN}

\* Python truthiness of a cell: None and "" are falsy, NaN (a non-zero float) is truthy.
Truthy(v) == v # NONE /\ v # ""

----------------------------------------------------------------------------
(* Exception messages, with their lengths: str(e)[:100].                    *)

ShortMsg == "API Error"
LongMsg == "rate limit exceeded ... (150 characters)"
LongMsgCut == "rate limit exceeded ... (first 100 characters)"
ExcMsgs == {ShortMsg, LongMsg}

ReasonCap == 100

StrLen(s) ==
    CASE s = ShortMsg -> 9
      [] s = LongMsg -> 150
      [] s = LongMsgCut -> 100
      [] OTHER -> 20

\* str(e)[:100] on the message vocabulary
CapReason(s) == IF StrLen(s) <= ReasonCap THEN s ELSE LongMsgCut

----------------------------------------------------------------------------
(* Answers of the collaborators of process_single_project.  One record     *)
(* fixes what the Analyzer and the LLM client answer for one work item:    *)
(*   fail     which call raises ("none": no call raises)                   *)
(*   msg      the message of the exception raised                          *)
(*   files    whether analyze_repo returns a non-empty file mapping        *)
(*   classification  what classify_deployment_and_cloud returns            *)
(*   summary  what generate_summary returns ("" when the LLM gave nothing) *)
(*   titles   whether generate_multiple_titles returns any candidate       *)
(*   best     the title evaluate_and_revise_titles returns                 *)

Calls == {"analyze_repo", "classify_deployment_and_cloud", "generate_summary",
          "generate_multiple_titles", "evaluate_and_revise_titles"}

\* What the classifier can return: a parsed answer or _default_classification().
Classifications ==
    { [deployment_type |-> "Batch", deployment_reason |-> "Uses Airflow",
       cloud_provider |-> "GCP"],
      [deployment_type |-> "Streaming", deployment_reason |-> "Uses Kafka",
       cloud_provider |-> "AWS"],
      [deployment_type |-> "Unknown", deployment_reason |-> "Could not classify",
       cloud_provider |-> "Unknown"] }

\* Titles as the LLM writes them: plain, wrapped in quotes, with a "Title: " prefix.
PlainTitle == "Taxi Fare Analytics"
QuotedTitle == "\"Taxi Fare Analytics\""
PrefixedTitle == "Title: Taxi Fare Analytics"
\* A title whose UTF-8 bytes were decoded as Latin-1, and its repaired form.
MojibakeTitle == "SÃ£o Paulo Transit Data"
RepairedTitle == "São Paulo Transit Data"
LlmTitles == {PlainTitle, QuotedTitle, PrefixedTitle, MojibakeTitle}

Summaries == {"", "A data pipeline"}

Oracles ==
    [fail : {"none"} \cup Calls, msg : ExcMsgs, files : BOOLEAN,
     classification : Classifications, summary : Summaries,
     titles : BOOLEAN, best : LlmTitles]

----------------------------------------------------------------------------
(* process_single_project                                                  *)

\* One call made to a collaborator, with the argument the claims look at.
Call(fn, arg) == [fn |-> fn, arg |-> arg]

\* The skip predicate with the deployment comparison inverted (== for !=).
AlreadyProcessed_InvertedDeployment(row) ==
    /\ ~IsNull(row.project_title)
    /\ row.project_title # "Unknown"
    /\ row.project_title # "Error"
    /\ ~IsNull(row.DeploymentType)
    /\ row.DeploymentType = "Unknown"

\* The skip predicate: title and deployment type both valid.
AlreadyProcessed(row) ==
    /\ ~IsNull(row.project_title)
    /\ row.project_title # "Unknown"
    /\ row.project_title # "Error"
    /\ ~IsNull(row.DeploymentType)
    /\ row.DeploymentType # "Unknown"
    /\ row.DeploymentType # "Error"

\* result as initialised from the row
InitialResult(row) ==
    [project_title |-> row.project_title, DeploymentType |-> row.DeploymentType,
     Reason |-> row.Reason, Cloud |-> row.Cloud, status |-> "success"]

\* The except branch.  result['project_title'] still holds the row's title: the
\* try body assigns it only in its last statements, which cannot raise.
ExceptResult(row, msg) ==
    [project_title |-> IF Truthy(row.project_title) THEN row.project_title ELSE "Error",
     DeploymentType |-> "Error",
     Reason |-> CapReason(msg),
     Cloud |-> "Error",
     status |-> "error"]

\* The short-circuit without its assignment of status (it stays 'success').
NoFilesResult_StatusNotSet ==
    [project_title |-> "Unknown", DeploymentType |-> "Unknown",
     Reason |-> "No files fetched", Cloud |-> "Unknown", status |-> "success"]

\* The short-circuit taken when the Analyzer returns no file.
NoFilesResult ==
    [project_title |-> "Unknown", DeploymentType |-> "Unknown",
     Reason |-> "No files fetched", Cloud |-> "Unknown", status |-> "skip"]

\* Step 2 runs the classifier only for a null or "Unknown" deployment type.
NeedsClassification(row) ==
    IsNull(row.DeploymentType) \/ row.DeploymentType = "Unknown"

\* Step 3 generates a title only for a null title.
NeedsTitle(row) == IsNull(row.project_title)

\* return index, result: with the calls made so far and, for the record, the
\* message of the exception the try body raised ("": none).
Returned(index, result, calls) ==
    [index |-> index, result |-> result, calls |-> calls, exc |-> ""]

\* return index, result out of the except branch.
Caught(index, row, msg, calls) ==
    [index |-> index, result |-> ExceptResult(row, msg), calls |-> calls, exc |-> msg]

\* Step 3, reached with the result so far and the calls made so far.
TitleStep(index, row, o, result, deployment_type, calls) ==
    IF ~NeedsTitle(row) THEN Returned(index, result, calls)
    ELSE
      LET c1 == Append(calls, Call("generate_summary", ""))
          c2 == Append(c1, Call("generate_multiple_titles", deployment_type))
          c3 == Append(c2, Call("evaluate_and_revise_titles", ""))
      IN  IF o.fail = "generate_summary" THEN Caught(index, row, o.msg, c1)
          ELSE IF o.summary = ""
            THEN Returned(index, [result EXCEPT !.project_title = "Unknown"], c1)
          ELSE IF o.fail = "generate_multiple_titles"
            THEN Caught(index, row, o.msg, c2)
          ELSE IF ~o.titles
            THEN Returned(index, [result EXCEPT !.project_title = "Unknown"], c2)
          ELSE IF o.fail = "evaluate_and_revise_titles"
            THEN Caught(index, row, o.msg, c3)
          ELSE Returned(index, [result EXCEPT !.project_title = o.best], c3)

\* Step 2 handing the row's stored deployment type on to step 3.
ClassifyStep_PassesRowType(index, row, o, calls) ==
    IF NeedsClassification(row)
    THEN LET c1 == Append(calls, Call("classify_deployment_and_cloud", row.project_url))
             cl == o.classification
         IN  IF o.fail = "classify_deployment_and_cloud"
             THEN Caught(index, row, o.msg, c1)
             ELSE TitleStep(index, row, o,
                            [InitialResult(row) EXCEPT
                                !.DeploymentType = cl.deployment_type,
                                !.Reason = cl.deployment_reason,
                                !.Cloud = cl.cloud_provider],
                            row.DeploymentType, c1)
    ELSE TitleStep(index, row, o, InitialResult(row), row.DeploymentType, calls)

\* Step 2, reached when the Analyzer returned files.
ClassifyStep(index, row, o, calls) ==
    IF NeedsClassification(row)
    THEN LET c1 == Append(calls, Call("classify_deployment_and_cloud", row.project_url))
             cl == o.classification
         IN  IF o.fail = "classify_deployment_and_cloud"
             THEN Caught(index, row, o.msg, c1)
             ELSE TitleStep(index, row, o,
                            [InitialResult(row) EXCEPT
                                !.DeploymentType = cl.deployment_type,
                                !.Reason = cl.deployment_reason,
                                !.Cloud = cl.cloud_provider],
                            cl.deployment_type, c1)
    ELSE TitleStep(index, row, o, InitialResult(row), row.DeploymentType, calls)

\* process_single_project with the classifier called before the file mapping is
\* tested for emptiness.
ProcessSingleProject_ClassifyBeforeFilesCheck(index, row, o) ==
    IF AlreadyProcessed(row)
    THEN Returned(index, [InitialResult(row) EXCEPT !.status = "skip"], <<>>)
    ELSE LET c1 == <<Call("analyze_repo", row.project_url)>>
             c2 == Append(c1, Call("classify_deployment_and_cloud", row.project_url))
         IN  IF o.fail = "analyze_repo" THEN Caught(index, row, o.msg, c1)
             ELSE IF ~o.files THEN Returned(index, NoFilesResult, c2)
             ELSE ClassifyStep(index, row, o, c1)

\* The whole function: (index, result) and the calls it made, in order.
ProcessSingleProject(index, row, o) ==
    IF AlreadyProcessed(row)
    THEN Returned(index, [InitialResult(row) EXCEPT !.status = "skip"], <<>>)
    ELSE LET c1 == <<Call("analyze_repo", row.project_url)>>
         IN  IF o.fail = "analyze_repo" THEN Caught(index, row, o.msg, c1)
             ELSE IF ~o.files THEN Returned(index, NoFilesResult, c1)
             ELSE ClassifyStep(index, row, o, c1)

----------------------------------------------------------------------------
(* Bounds of the model.                                                    *)

\* Rows of the input CSV.
NumRows == 2
\* Largest value of --limit that is tried (0: no limit).
MaxLimit == 1

----------------------------------------------------------------------------
(* The input CSV.                                                          *)

RepoUrl == "https://github.com/user/repo"

Row(u, t, d, r, c) ==
    [project_url |-> u, project_title |-> t, DeploymentType |-> d, Reason |-> r, Cloud |-> c]

\* A row of the CSV that combine_csvs writes: project_url and nothing else.
UrlOnlyRow == Row(RepoUrl, ABSENT, ABSENT, ABSENT, ABSENT)
\* A row of a CSV that has no project_url column.
NoUrlRow == Row(ABSENT, ABSENT, ABSENT, ABSENT, ABSENT)
\* Rows of a CSV that has the four result columns (an earlier output fed back in).
DoneRow == Row(RepoUrl, "Old Title", "Batch", "Uses Airflow", "GCP")
BlankRow == Row(RepoUrl, NAN, NAN, NAN, NAN)
UnknownRow == Row(RepoUrl, "Unknown", "Unknown", "No files fetched", "Unknown")
ErrorRow == Row(RepoUrl, "Error", "Error", ShortMsg, "Error")
CsvRows == {DoneRow, BlankRow, UnknownRow, ErrorRow}

\* A column is present in every row or in none.
InputTables ==
    {[i \in 1..NumRows |-> UrlOnlyRow], [i \in 1..NumRows |-> NoUrlRow]}
        \cup [1..NumRows -> CsvRows]

EnvValues == {"unset", "empty", "set"}

\* A file that does not exist.
NoFile == [exists |-> FALSE, rows |-> <<>>]

NoResult ==
    [project_title |-> "", DeploymentType |-> "", Reason |-> "", Cloud |-> "", status |-> ""]

Pending(i) ==
    [state |-> "pending", index |-> i, result |-> NoResult, calls |-> <<>>, exc |-> ""]

TypeOK ==
    /\ env \in [MY_GITHUB_TOKEN : EnvValues, OPENROUTER_API_KEY : EnvValues]
    /\ limit \in 0..MaxLimit
    /\ run \in Nat
    /\ cur \in 0..NumRows
    /\ dfLock \in {"free", "main"}
    /\ counter \in [success : Nat, skip : Nat, error : Nat]

----------------------------------------------------------------------------
(* main(): start-up                                                        *)

\* os.environ.get(name) is falsy for an unset and for an empty variable.
EnvMissing(name) == env[name] # "set"

\* _check_env_vars without its second test.
MissingVars_OnlyGithubToken ==
    SelectSeq(<<"MY_GITHUB_TOKEN">>, EnvMissing)

\* _check_env_vars: the list `missing`, in the order the code appends.
MissingVars ==
    SelectSeq(<<"MY_GITHUB_TOKEN", "OPENROUTER_API_KEY">>, EnvMissing)

\* main() line 188: raise EnvironmentError naming `missing`, or go on.
CheckEnv ==
    /\ mainPc = "start"
    /\ IF MissingVars # <<>>
       THEN mainPc' = "raised" /\ raised' = MissingVars
       ELSE mainPc' = "read" /\ raised' = raised
    /\ UNCHANGED <<call, env, limit, inputCsv, outputCsv, df, work_items, futures, cur,
                   dfLock, counterLock, counter, run, threads>>

\* df.head(n)
Head_(t, n) == IF Len(t) <= n THEN t ELSE SubSeq(t, 1, n)

\* CSVHandler(cleaned_csv_path), then the --limit truncation.
ReadCsv ==
    /\ mainPc = "read"
    /\ df' = IF limit > 0 THEN Head_(inputCsv, limit) ELSE inputCsv
    /\ mainPc' = "init_columns"
    /\ UNCHANGED <<call, env, limit, inputCsv, outputCsv, work_items, futures, cur,
                   dfLock, counterLock, counter, raised, run, threads>>

\* df[col] = None for a missing column.
WithColumn(v) == IF v = ABSENT THEN NONE ELSE v

InitColumnsRow(r) ==
    [r EXCEPT !.project_title = WithColumn(@), !.DeploymentType = WithColumn(@),
              !.Reason = WithColumn(@), !.Cloud = WithColumn(@)]

\* Lines 206-209: add the result columns the CSV lacks.
InitColumns ==
    /\ mainPc = "init_columns"
    /\ df' = [i \in 1..Len(df) |-> InitColumnsRow(df[i])]
    /\ mainPc' = "submit"
    /\ UNCHANGED <<call, env, limit, inputCsv, outputCsv, work_items, futures, cur,
                   dfLock, counterLock, counter, raised, run, threads>>

\* Lines 220-239: a fresh Counter, the work items, one future per item.
Submit ==
    /\ mainPc = "submit"
    /\ work_items' = df
    /\ futures' = [i \in 1..Len(df) |-> Pending(i)]
    /\ counter' = [success |-> 0, skip |-> 0, error |-> 0]
    /\ mainPc' = "loop"
    /\ UNCHANGED <<call, env, limit, inputCsv, outputCsv, df, cur, dfLock, counterLock,
                   raised, run, threads>>

----------------------------------------------------------------------------
(* Locks                                                                   *)

\* A Lock that lets a thread in although it is held.
CanEnter_Always(lock) == TRUE

\* threading.Lock: a thread enters only when no thread holds the lock.
CanEnter(lock) == lock = "free"

----------------------------------------------------------------------------
(* The worker pool                                                         *)

Done(r) ==
    [state |-> "done", index |-> r.index, result |-> r.result, calls |-> r.calls,
     exc |-> r.exc]

Failed(i) ==
    [state |-> "failed", index |-> i, result |-> NoResult, calls |-> <<>>,
     exc |-> "KeyError: 'project_url'"]

\* One answer record of Oracles.
Oracle(fail, msg, files, cl, summary, titles, best) ==
    [fail |-> fail, msg |-> msg, files |-> files,
     classification |-> CHOOSE c \in Classifications : c.deployment_type = cl,
     summary |-> summary, titles |-> titles, best |-> best]

\* What the collaborators answer during a run of main(): one answer per outcome
\* of process_single_project (every answer is explored under SpecItem).
RunOracles ==
    { Oracle("analyze_repo", LongMsg, FALSE, "Unknown", "", FALSE, PlainTitle),
      Oracle("none", ShortMsg, FALSE, "Unknown", "", FALSE, PlainTitle),
      Oracle("none", ShortMsg, TRUE, "Batch", "A data pipeline", TRUE, QuotedTitle),
      Oracle("none", ShortMsg, TRUE, "Streaming", "A data pipeline", TRUE, MojibakeTitle),
      Oracle("none", ShortMsg, TRUE, "Unknown", "", FALSE, PlainTitle),
      Oracle("evaluate_and_revise_titles", ShortMsg, TRUE, "Batch", "A data pipeline",
             TRUE, PlainTitle) }

\* The future of work item i after process_single_project has run on it.  Line 96
\* reads row['project_url'] outside the try: a table without that column makes the
\* call raise KeyError, which the future stores.
Completed(i, o) ==
    IF work_items[i].project_url = ABSENT
    THEN Failed(i)
    ELSE Done(ProcessSingleProject(i, work_items[i], o))

\* A pool thread runs process_single_project on work item i.  The function reads
\* its own copy of the row and touches no shared state.
Worker(i) ==
    /\ mainPc \in {"loop", "failed", "acquire_df", "merge", "release_df", "count",
                   "inc", "release_counter"}
    /\ futures[i].state = "pending"
    /\ \E o \in RunOracles : futures' = [futures EXCEPT ![i] = Completed(i, o)]
    /\ UNCHANGED <<call, env, limit, inputCsv, outputCsv, df, work_items, mainPc, cur,
                   dfLock, counterLock, counter, raised, run, threads>>

----------------------------------------------------------------------------
(* main(): the as_completed loop                                           *)

\* as_completed yields a finished future; future.result() returns or raises.
TakeCompleted(i) ==
    /\ mainPc = "loop"
    /\ futures[i].state \in {"done", "failed"}
    /\ cur' = i
    /\ mainPc' = IF futures[i].state = "failed" THEN "failed" ELSE "acquire_df"
    /\ UNCHANGED <<call, env, limit, inputCsv, outputCsv, df, work_items, futures,
                   dfLock, counterLock, counter, raised, run, threads>>

\* The merge entered without taking _df_lock.
AcquireDfLock_NoLock ==
    /\ mainPc = "acquire_df"
    /\ mainPc' = "merge"
    /\ UNCHANGED <<call, env, limit, inputCsv, outputCsv, df, work_items, futures, cur,
                   dfLock, counterLock, counter, raised, run, threads>>

\* with _df_lock: (enter)
AcquireDfLock ==
    /\ mainPc = "acquire_df"
    /\ CanEnter(dfLock)
    /\ dfLock' = "main"
    /\ mainPc' = "merge"
    /\ UNCHANGED <<call, env, limit, inputCsv, outputCsv, df, work_items, futures, cur,
                   counterLock, counter, raised, run, threads>>

\* The row after the four df.at[index, col] = result[col] assignments.
MergedRow(row, result) ==
    [row EXCEPT !.project_title = result.project_title,
                !.DeploymentType = result.DeploymentType,
                !.Reason = result.Reason,
                !.Cloud = result.Cloud]

\* The result written to the next free position, in completion order.
MergeIndex_CompletionOrder(f) ==
    Cardinality({j \in 1..Len(futures) : futures[j].state = "handled"}) + 1

\* The row label the result is written to.
MergeIndex(f) == f.index

\* Lines 248-255.
MergeResult ==
    /\ mainPc = "merge"
    /\ df' = [df EXCEPT ![MergeIndex(futures[cur])] = MergedRow(@, futures[cur].result)]
    /\ mainPc' = "release_df"
    /\ UNCHANGED <<call, env, limit, inputCsv, outputCsv, work_items, futures, cur,
                   dfLock, counterLock, counter, raised, run, threads>>

\* The counters updated inside the with-block: the lock is still held.
ReleaseDfLock_KeepsLock ==
    /\ mainPc = "release_df"
    /\ mainPc' = "count"
    /\ UNCHANGED <<call, env, limit, inputCsv, outputCsv, df, work_items, futures, cur,
                   dfLock, counterLock, counter, raised, run, threads>>

\* with _df_lock: (exit)
ReleaseDfLock ==
    /\ mainPc = "release_df"
    /\ dfLock' = "free"
    /\ mainPc' = "count"
    /\ UNCHANGED <<call, env, limit, inputCsv, outputCsv, df, work_items, futures, cur,
                   counterLock, counter, raised, run, threads>>

\* The loop body without its try/except: the future's exception leaves main().
OnFutureException_Propagates ==
    /\ mainPc = "failed"
    /\ mainPc' = "aborted"
    /\ UNCHANGED <<call, env, limit, inputCsv, outputCsv, df, work_items, futures, cur,
                   dfLock, counterLock, counter, raised, run, threads>>

\* except Exception: the failed future is logged and counted as an error.
OnFutureException ==
    /\ mainPc = "failed"
    /\ mainPc' = "count"
    /\ UNCHANGED <<call, env, limit, inputCsv, outputCsv, df, work_items, futures, cur,
                   dfLock, counterLock, counter, raised, run, threads>>

\* Which Counter method lines 258-263 and 277 call for a future.
CounterField(f) ==
    IF f.state = "failed" THEN "error"
    ELSE IF f.result.status = "success" THEN "success"
    ELSE IF f.result.status = "skip" THEN "skip"
    ELSE "error"

\* Counter.inc_*: with self._lock (enter)
AcquireCounterLock ==
    /\ mainPc = "count"
    /\ CanEnter(counterLock)
    /\ counterLock' = "main"
    /\ mainPc' = "inc"
    /\ UNCHANGED <<call, env, limit, inputCsv, outputCsv, df, work_items, futures, cur,
                   dfLock, counter, raised, run, threads>>

\* The counter raised by two.
Increment_Twice ==
    /\ mainPc = "inc"
    /\ counter' = [counter EXCEPT ![CounterField(futures[cur])] = @ + 2]
    /\ mainPc' = "release_counter"
    /\ UNCHANGED <<call, env, limit, inputCsv, outputCsv, df, work_items, futures, cur,
                   dfLock, counterLock, raised, run, threads>>

\* self.<field> += 1
Increment ==
    /\ mainPc = "inc"
    /\ counter' = [counter EXCEPT ![CounterField(futures[cur])] = @ + 1]
    /\ mainPc' = "release_counter"
    /\ UNCHANGED <<call, env, limit, inputCsv, outputCsv, df, work_items, futures, cur,
                   dfLock, counterLock, raised, run, threads>>

\* Counter.inc_*: with self._lock (exit), then pbar.update(1) and the next future.
ReleaseCounterLock ==
    /\ mainPc = "release_counter"
    /\ counterLock' = "free"
    /\ futures' = [futures EXCEPT ![cur].state = "handled"]
    /\ cur' = 0
    /\ mainPc' = "loop"
    /\ UNCHANGED <<call, env, limit, inputCsv, outputCsv, df, work_items, dfLock, counter,
                   raised, run, threads>>

AllHandled == \A i \in 1..Len(futures) : futures[i].state = "handled"

\* as_completed is exhausted and the executor's with-block exits.
ExitPool ==
    /\ mainPc = "loop"
    /\ AllHandled
    /\ mainPc' = "fix_mojibake"
    /\ UNCHANGED <<call, env, limit, inputCsv, outputCsv, df, work_items, futures, cur,
                   dfLock, counterLock, counter, raised, run, threads>>

----------------------------------------------------------------------------
(* main(): clean-up and save                                               *)

\* utils.csv_handler.fix_mojibake on the cell vocabulary: a string holding a
\* tell-tale sequence is re-encoded as Latin-1 and decoded as UTF-8.
FixMojibake(text) == IF text = MojibakeTitle THEN RepairedTitle ELSE text

\* CSVHandler.fix_mojibake_columns(['project_title', 'Reason'])
FixMojibakeColumns ==
    /\ mainPc = "fix_mojibake"
    /\ df' = [i \in 1..Len(df) |->
                [df[i] EXCEPT !.project_title = FixMojibake(@), !.Reason = FixMojibake(@)]]
    /\ mainPc' = "clean_titles"
    /\ UNCHANGED <<call, env, limit, inputCsv, outputCsv, work_items, futures, cur,
                   dfLock, counterLock, counter, raised, run, threads>>

\* .str.replace('"', '') then .str.replace('Title: ', '') on the title vocabulary.
CleanTitle(t) == IF t \in {QuotedTitle, PrefixedTitle} THEN PlainTitle ELSE t

\* Lines 286-291.
CleanTitles ==
    /\ mainPc = "clean_titles"
    /\ df' = [i \in 1..Len(df) |-> [df[i] EXCEPT !.project_title = CleanTitle(@)]]
    /\ mainPc' = "save"
    /\ UNCHANGED <<call, env, limit, inputCsv, outputCsv, work_items, futures, cur,
                   dfLock, counterLock, counter, raised, run, threads>>

\* df.to_csv(path, index=False): a null cell is written as an empty field.
CsvCell(v) == IF IsNull(v) THEN "" ELSE v

CsvRow(r) ==
    [project_url |-> r.project_url, project_title |-> CsvCell(r.project_title),
     DeploymentType |-> CsvCell(r.DeploymentType), Reason |-> CsvCell(r.Reason),
     Cloud |-> CsvCell(r.Cloud)]

\* csv_handler.save(output_csv_path)
Save ==
    /\ mainPc = "save"
    /\ outputCsv' = [exists |-> TRUE, rows |-> [i \in 1..Len(df) |-> CsvRow(df[i])]]
    /\ mainPc' = "done"
    /\ UNCHANGED <<call, env, limit, inputCsv, df, work_items, futures, cur,
                   dfLock, counterLock, counter, raised, run, threads>>

----------------------------------------------------------------------------
(* One run of main()                                                       *)

Init ==
    /\ env \in [MY_GITHUB_TOKEN : EnvValues, OPENROUTER_API_KEY : EnvValues]
    /\ limit \in 0..MaxLimit
    /\ inputCsv \in InputTables
    /\ outputCsv = NoFile
    /\ df = <<>>
    /\ work_items = <<>>
    /\ futures = <<>>
    /\ mainPc = "start"
    /\ cur = 0
    /\ dfLock = "free"
    /\ counterLock = "free"
    /\ counter = [success |-> 0, skip |-> 0, error |-> 0]
    /\ raised = <<>>
    /\ run = 1
    /\ threads = <<>>
    /\ call = NoCall

Next ==
    \/ CheckEnv
    \/ ReadCsv
    \/ InitColumns
    \/ Submit
    \/ \E i \in 1..NumRows : i <= Len(futures) /\ Worker(i)
    \/ \E i \in 1..NumRows : i <= Len(futures) /\ TakeCompleted(i)
    \/ AcquireDfLock
    \/ MergeResult
    \/ ReleaseDfLock
    \/ OnFutureException
    \/ AcquireCounterLock
    \/ Increment
    \/ ReleaseCounterLock
    \/ ExitPool
    \/ FixMojibakeColumns
    \/ CleanTitles
    \/ Save

Spec == Init /\ [][Next]_vars

\* The pool threads and the main thread are scheduled by the operating system:
\* a step that can be taken is eventually taken.
SpecFair == Spec /\ WF_vars(Next)

----------------------------------------------------------------------------
(* main() run again                                                        *)

\* Runs of main() that are tried.
MaxRuns == 2

\* The process has ended; main() is started again with the same arguments.  The
\* files stay, everything in memory is new.
Restart ==
    /\ mainPc = "done"
    /\ run < MaxRuns
    /\ run' = run + 1
    /\ mainPc' = "start"
    /\ df' = <<>>
    /\ work_items' = <<>>
    /\ futures' = <<>>
    /\ cur' = 0
    /\ counter' = [success |-> 0, skip |-> 0, error |-> 0]
    /\ UNCHANGED <<call, env, limit, inputCsv, outputCsv, dfLock, counterLock, raised, threads>>

InitRerun ==
    /\ Init
    /\ MissingVars = <<>>

NextRerun == Next \/ Restart

SpecRerun == InitRerun /\ [][NextRerun]_vars

----------------------------------------------------------------------------
(* process_single_project on one row                                       *)

ReasonOf(d) ==
    CASE d = "Batch" -> "Uses Airflow"
      [] d = "Unknown" -> "No files fetched"
      [] d = "Error" -> ShortMsg
      [] OTHER -> d

CloudOf(d) == IF d = "Batch" THEN "GCP" ELSE d

\* Every shape of row: each of title and deployment type None, NaN, "Unknown",
\* "Error" or a valid value.
ItemRows ==
    { Row(RepoUrl, t, d, ReasonOf(d), CloudOf(d)) :
        t \in {NONE, NAN, "Unknown", "Error", "Old Title"},
        d \in {NONE, NAN, "Unknown", "Error", "Batch"} }

InitItem ==
    /\ env = [MY_GITHUB_TOKEN |-> "set", OPENROUTER_API_KEY |-> "set"]
    /\ limit = 0
    /\ inputCsv = <<>>
    /\ outputCsv = NoFile
    /\ df = <<>>
    /\ work_items \in {<<r>> : r \in ItemRows}
    /\ futures = <<Pending(1)>>
    /\ mainPc = "item"
    /\ cur = 0
    /\ dfLock = "free"
    /\ counterLock = "free"
    /\ counter = [success |-> 0, skip |-> 0, error |-> 0]
    /\ raised = <<>>
    /\ run = 1
    /\ threads = <<>>
    /\ call = NoCall

\* process_single_project((1, row, repo_analyzer, openai_api, types)) returns.
ProcessItem ==
    /\ mainPc = "item"
    /\ futures[1].state = "pending"
    /\ \E o \in Oracles : futures' = [futures EXCEPT ![1] = Completed(1, o)]
    /\ UNCHANGED <<call, env, limit, inputCsv, outputCsv, df, work_items, mainPc, cur,
                   dfLock, counterLock, counter, raised, run, threads>>

NextItem == ProcessItem

SpecItem == InitItem /\ [][NextItem]_vars

----------------------------------------------------------------------------
(* Counter under concurrent use (tests/test_df_thread_safety.py)           *)

\* Threads that increment concurrently.
CounterThreads == 2
\* Iterations of each thread's loop (range(100) in the test).
CounterIncrements == 2

\* increment_all: counter.inc_success(); counter.inc_skip(); counter.inc_error()
Methods == <<"success", "skip", "error">>

ThreadId(t) == ToString(t)

InitCounter ==
    /\ env = [MY_GITHUB_TOKEN |-> "set", OPENROUTER_API_KEY |-> "set"]
    /\ limit = 0
    /\ inputCsv = <<>>
    /\ outputCsv = NoFile
    /\ df = <<>>
    /\ work_items = <<>>
    /\ futures = <<>>
    /\ mainPc = "counter_test"
    /\ cur = 0
    /\ dfLock = "free"
    /\ counterLock = "free"
    /\ counter = [success |-> 0, skip |-> 0, error |-> 0]
    /\ raised = <<>>
    /\ run = 1
    /\ threads = [t \in 1..CounterThreads |->
                    [pc |-> "call", iter |-> 1, method |-> 1, tmp |-> 0]]
    /\ call = NoCall

\* with self._lock: (enter)
IncAcquire(t) ==
    /\ threads[t].pc = "call"
    /\ CanEnter(counterLock)
    /\ counterLock' = ThreadId(t)
    /\ threads' = [threads EXCEPT ![t].pc = "read"]
    /\ UNCHANGED <<call, env, limit, inputCsv, outputCsv, df, work_items, futures, mainPc,
                   cur, dfLock, counter, raised, run>>

\* self.<field> += 1, first half: load the attribute.
IncRead(t) ==
    /\ threads[t].pc = "read"
    /\ threads' = [threads EXCEPT ![t].pc = "write",
                                  ![t].tmp = counter[Methods[threads[t].method]]]
    /\ UNCHANGED <<call, env, limit, inputCsv, outputCsv, df, work_items, futures, mainPc,
                   cur, dfLock, counterLock, counter, raised, run>>

\* self.<field> += 1, second half: store the sum.
IncWrite(t) ==
    /\ threads[t].pc = "write"
    /\ counter' = [counter EXCEPT ![Methods[threads[t].method]] = threads[t].tmp + 1]
    /\ threads' = [threads EXCEPT ![t].pc = "release"]
    /\ UNCHANGED <<call, env, limit, inputCsv, outputCsv, df, work_items, futures, mainPc,
                   cur, dfLock, counterLock, raised, run>>

\* The thread's position after one inc_* call: the next method, the next
\* iteration, or the end of its loop.
AfterCall(th) ==
    IF th.method < Len(Methods)
    THEN [th EXCEPT !.pc = "call", !.method = @ + 1]
    ELSE IF th.iter < CounterIncrements
    THEN [th EXCEPT !.pc = "call", !.method = 1, !.iter = @ + 1]
    ELSE [th EXCEPT !.pc = "finished"]

\* with self._lock: (exit)
IncRelease(t) ==
    /\ threads[t].pc = "release"
    /\ counterLock' = "free"
    /\ threads' = [threads EXCEPT ![t] = AfterCall(@)]
    /\ UNCHANGED <<call, env, limit, inputCsv, outputCsv, df, work_items, futures, mainPc,
                   cur, dfLock, counter, raised, run>>

NextCounter ==
    \E t \in 1..CounterThreads :
        \/ IncAcquire(t)
        \/ IncRead(t)
        \/ IncWrite(t)
        \/ IncRelease(t)

SpecCounter == InitCounter /\ [][NextCounter]_vars

----------------------------------------------------------------------------
(* Properties of process_single_project (checked under SpecItem)           *)

\* "Fully processed" as the specification words it: title and deployment type
\* both set and neither "Unknown" nor "Error".
Valid(v) == v \notin {NONE, NAN, ABSENT, "Unknown", "Error"}

FullyProcessed(row) == Valid(row.project_title) /\ Valid(row.DeploymentType)

\* The futures whose call of process_single_project has returned.
Returns == {i \in 1..Len(futures) : futures[i].state \in {"done", "handled"}}

CallsTo(f, fns) == {k \in 1..Len(f.calls) : f.calls[k].fn \in fns}

TitleCalls ==
    {"generate_summary", "generate_multiple_titles", "evaluate_and_revise_titles"}

\* C1: for every row whose project_title and Deployment Type are both non-null
\* and neither 'Unknown' nor 'Error', process_single_project returns status
\* 'skip' (with the row's values) and calls neither the Analyzer, the Classifier
\* nor any LLM method.
C1_FullyProcessedIsSkipped ==
    \A i \in Returns :
        FullyProcessed(work_items[i]) =>
            /\ futures[i].result.status = "skip"
            /\ futures[i].calls = <<>>
            /\ futures[i].result.project_title = work_items[i].project_title
            /\ futures[i].result.DeploymentType = work_items[i].DeploymentType

C1_Witness ==
    /\ mainPc = "item"
    /\ futures[1].state = "done"
    /\ FullyProcessed(work_items[1])
    /\ futures[1].result.status = "skip"

\* C3: if an exception is raised while analysing, classifying or titling a row,
\* process_single_project does not raise; it returns status 'error', Deployment
\* Type 'Error', Cloud 'Error', Reason the exception message cut to at most 100
\* characters, and project_title the row's existing title if it has one,
\* otherwise 'Error'.
C3_ExceptionGivesErrorResult ==
    \A i \in 1..Len(futures) :
        (futures[i].exc # "" /\ work_items[i].project_url # ABSENT) =>
            /\ futures[i].state # "failed"
            /\ futures[i].result.status = "error"
            /\ futures[i].result.DeploymentType = "Error"
            /\ futures[i].result.Cloud = "Error"
            /\ StrLen(futures[i].result.Reason) <= ReasonCap
            /\ StrLen(futures[i].exc) <= ReasonCap
                   => futures[i].result.Reason = futures[i].exc
            /\ futures[i].result.project_title =
                   IF work_items[i].project_title \in {NONE, NAN}
                   THEN "Error"
                   ELSE work_items[i].project_title

\* C10 as claimed: whenever process_single_project returns status 'skip', the
\* Analyzer, the Classifier and the Title Generator were not invoked for the row.
C10_SkipMakesNoCall ==
    \A i \in Returns :
        futures[i].result.status = "skip" => futures[i].calls = <<>>

\* C10 as amended: whenever process_single_project returns status 'skip', the
\* Classifier and the Title Generator were not invoked for the row; the Analyzer
\* was not invoked when the row was fully processed, and otherwise it was invoked
\* exactly once (and returned no file: the result is the "No files fetched" one).
C10_SkipCallsAtMostAnalyzer ==
    \A i \in Returns :
        futures[i].result.status = "skip" =>
            /\ CallsTo(futures[i], {"classify_deployment_and_cloud"} \cup TitleCalls) = {}
            /\ FullyProcessed(work_items[i]) => futures[i].calls = <<>>
            /\ ~FullyProcessed(work_items[i]) =>
                   /\ Len(futures[i].calls) = 1
                   /\ futures[i].calls[1].fn = "analyze_repo"
                   /\ futures[i].result.Reason = "No files fetched"

C10_Witness ==
    /\ mainPc = "item"
    /\ futures[1].state = "done"
    /\ futures[1].result.status = "skip"
    /\ ~FullyProcessed(work_items[1])
    /\ Len(futures[1].calls) = 1

----------------------------------------------------------------------------
(* Properties of main() (checked under Spec, SpecFair and SpecRerun)       *)

\* C2: run again after a completed run, main() reprocesses exactly the rows the
\* first run left not fully processed: a row the first run made fully processed
\* is skipped without any Analyzer or LLM call, every other row is processed
\* again.  (Until the second run saves, outputCsv is what the first run left.)
C2_RerunSkipsWhatFirstRunCompleted ==
    (run = 2 /\ mainPc # "done") =>
        \A i \in Returns :
            FullyProcessed(outputCsv.rows[i]) <=> futures[i].calls = <<>>

HoldsResult(row, result) ==
    /\ row.project_title = result.project_title
    /\ row.DeploymentType = result.DeploymentType
    /\ row.Reason = result.Reason
    /\ row.Cloud = result.Cloud

\* C5 as claimed: after the run the table row at index i holds exactly the
\* result computed for work item i, and the number and order of the rows is
\* that of the input.
C5_FinalTableHoldsResults ==
    mainPc = "done" =>
        /\ Len(df) = Len(inputCsv)
        /\ \A i \in 1..Len(df) :
              /\ df[i].project_url = inputCsv[i].project_url
              /\ futures[i].state = "handled" /\ futures[i].exc # Failed(i).exc
                    => HoldsResult(df[i], futures[i].result)

\* The rows main() works on: the input, cut to the first `limit` rows if limit > 0.
RowsInScope == IF limit > 0 /\ limit < Len(inputCsv) THEN limit ELSE Len(inputCsv)

\* A result after the final clean-up of titles and reasons.
Cleaned(result) ==
    [result EXCEPT !.project_title = CleanTitle(FixMojibake(@)),
                   !.Reason = FixMojibake(@)]

\* C5 as amended: for every completion order, when the as_completed loop has
\* ended the table row at index i holds exactly the result computed for work
\* item i (a row whose future failed keeps its values); the rows are the input's
\* rows in the input's order, cut to the first --limit rows when a limit is
\* given; the final clean-up then only repairs mojibake in titles and reasons
\* and removes '"' and 'Title: ' from titles.
C5_RowsMergedByIndex ==
    mainPc \in {"fix_mojibake", "clean_titles", "save", "done"} =>
        /\ Len(df) = RowsInScope
        /\ \A i \in 1..Len(df) :
              /\ df[i].project_url = inputCsv[i].project_url
              /\ futures[i].state = "handled"
              /\ futures[i].index = i
              /\ IF futures[i].exc = Failed(i).exc
                 THEN df[i] = work_items[i]
                 ELSE IF mainPc = "fix_mojibake"
                 THEN HoldsResult(df[i], futures[i].result)
                 ELSE mainPc = "done" => HoldsResult(df[i], Cleaned(futures[i].result))

\* Two rows with different results, the later row handled first, both merged.
C5_Witness ==
    /\ mainPc = "fix_mojibake"
    /\ Len(df) >= 2
    /\ futures[1].result # futures[2].result
    /\ futures[1].result.status = "success"
    /\ futures[2].result.status = "error"
    /\ HoldsResult(df[1], futures[1].result)
    /\ HoldsResult(df[2], futures[2].result)

\* C6 as claimed: every mutation of the table made during a run of main()
\* occurs while _df_lock is held.
C6_EveryMutationUnderLock ==
    [][(df # <<>> /\ df' # df) => dfLock = "main"]_vars

\* No pool thread can be running: nothing is submitted yet, or the pool has exited.
NoWorkerRunning ==
    \/ futures = <<>>
    \/ mainPc \in {"fix_mojibake", "clean_titles", "save", "done"} /\ AllHandled

\* C6 as amended: every mutation of the table made between the submission of
\* the work items and the exit of the worker pool occurs while _df_lock is held;
\* the column initialisation before the submission and the final clean-up after
\* the pool has exited mutate it without the lock, when no worker is running.
C6_MutationsUnderLockWhilePoolRuns ==
    [][(df # <<>> /\ df' # df) => (dfLock = "main" \/ NoWorkerRunning)]_vars

\* A merge has changed a row while the lock was held and another item was pending.
C6_Witness ==
    /\ mainPc = "release_df"
    /\ dfLock = "main"
    /\ df[cur] # work_items[cur]
    /\ \E i \in 1..Len(futures) : futures[i].state = "pending"

\* C8: the counters have their own lock, and no thread ever holds the table
\* lock and the counter lock together: a counter is incremented only after the
\* table lock was released, and main() never waits for a lock that is held.
C8_LocksNeverHeldTogether ==
    /\ ~(dfLock # "free" /\ counterLock # "free")
    /\ mainPc \in {"inc", "release_counter"} => (counterLock = "main" /\ dfLock = "free")
    /\ mainPc = "acquire_df" => dfLock = "free"
    /\ mainPc = "count" => counterLock = "free"

\* The counter lock is held for the increment that follows a merge.
C8_Witness ==
    /\ mainPc = "inc"
    /\ counterLock = "main"
    /\ dfLock = "free"
    /\ futures[cur].state = "done"
    /\ HoldsResult(df[cur], futures[cur].result)

\* C9: if MY_GITHUB_TOKEN or OPENROUTER_API_KEY is unset or empty when main()
\* starts, main() raises an EnvironmentError naming every missing variable,
\* before the dataset is read and before any work item is submitted.
C9_MissingCredentialsRaiseFirst ==
    (\E v \in DOMAIN env : env[v] \in {"unset", "empty"}) =>
        /\ mainPc \in {"start", "raised"}
        /\ df = <<>> /\ work_items = <<>> /\ futures = <<>> /\ ~outputCsv.exists
        /\ mainPc = "raised" =>
              \A v \in DOMAIN env :
                  env[v] \in {"unset", "empty"} <=> \E k \in 1..Len(raised) : raised[k] = v

C9_Witness ==
    /\ mainPc = "raised"
    /\ env.MY_GITHUB_TOKEN = "set"
    /\ env.OPENROUTER_API_KEY = "empty"
    /\ raised = <<"OPENROUTER_API_KEY">>

----------------------------------------------------------------------------
(* Properties of Counter (checked under SpecCounter)                       *)

AllFinished == \A t \in 1..Len(threads) : threads[t].pc = "finished"

\* C7: for every number N of concurrent workers and every interleaving, N
\* workers each calling a Counter increment a fixed number of times (100 in the
\* claim, CounterIncrements here) leave that counter at exactly that number
\* times N: no increment is lost.
C7_NoLostIncrement ==
    AllFinished =>
        \A m \in {"success", "skip", "error"} :
            counter[m] = CounterIncrements * CounterThreads

\* Every thread has finished its loop.
C7_Witness ==
    /\ mainPc = "counter_test"
    /\ AllFinished
    /\ counter.success = CounterIncrements * CounterThreads
    /\ counter.error = CounterIncrements * CounterThreads

----------------------------------------------------------------------------
(* Further properties of process_single_project (checked under SpecItem)   *)

\* The answers under which the call on work item i returned what future i holds.
AnswersOf(i) == {o \in Oracles : futures[i] = Completed(i, o)}

\* C11: every result of process_single_project whose project_title, Deployment
\* Type or Cloud is 'Error' has status 'error': a field is 'Error' only when an
\* exception was caught while processing the row in that call.
C11_ErrorFieldOnlyWithErrorStatus ==
    \A i \in Returns :
        ("Error" \in {futures[i].result.project_title,
                      futures[i].result.DeploymentType,
                      futures[i].result.Cloud})
            => futures[i].result.status = "error"

\* C12: when the Analyzer returns an empty file mapping for a row that is not
\* skipped, process_single_project returns project_title 'Unknown', Deployment
\* Type 'Unknown', Reason 'No files fetched', Cloud 'Unknown' and status 'skip',
\* and calls neither the Classifier nor any title-generation LLM method.
C12_NoFilesShortCircuit ==
    \A i \in Returns :
        \A o \in AnswersOf(i) :
            (~AlreadyProcessed(work_items[i]) /\ o.fail # "analyze_repo" /\ ~o.files) =>
                /\ futures[i].result.project_title = "Unknown"
                /\ futures[i].result.DeploymentType = "Unknown"
                /\ futures[i].result.Reason = "No files fetched"
                /\ futures[i].result.Cloud = "Unknown"
                /\ futures[i].result.status = "skip"
                /\ CallsTo(futures[i], {"classify_deployment_and_cloud"} \cup TitleCalls) = {}

\* A row with an old title and no deployment type whose repository gave no file.
C12_Witness ==
    /\ mainPc = "item"
    /\ futures[1].state = "done"
    /\ work_items[1].project_title = "Old Title"
    /\ work_items[1].DeploymentType = NAN
    /\ futures[1].calls = <<Call("analyze_repo", RepoUrl)>>
    /\ futures[1].result.Reason = "No files fetched"

----------------------------------------------------------------------------
(* Python str methods, on strings as sequences of characters               *)

\* s.startswith(p), s.endswith(p)
StartsWith(s, p) == Len(s) >= Len(p) /\ SubSeq(s, 1, Len(p)) = p

EndsWith(s, p) == Len(s) >= Len(p) /\ SubSeq(s, Len(s) - Len(p) + 1, Len(s)) = p

\* The positions at which sub occurs in s.
Occurrences(s, sub) ==
    {i \in 1..(Len(s) - Len(sub) + 1) : SubSeq(s, i, i + Len(sub) - 1) = sub}

\* sub in s
Contains(s, sub) == Occurrences(s, sub) # {}

\* s.find(sub) + 1: the first position of sub in s, 0 when it does not occur.
Find(s, sub) ==
    IF Contains(s, sub)
    THEN CHOOSE i \in Occurrences(s, sub) : \A j \in Occurrences(s, sub) : i <= j
    ELSE 0

UpperCase == "ABCDEFGHIJKLMNOPQRSTUVWXYZ"
LowerCase == "abcdefghijklmnopqrstuvwxyz"

LowerChar(c) ==
    IF Contains(UpperCase, c)
    THEN SubSeq(LowerCase, Find(UpperCase, c), Find(UpperCase, c))
    ELSE c

\* s.lower()
RECURSIVE Lower(_)
Lower(s) ==
    IF s = "" THEN ""
    ELSE LowerChar(SubSeq(s, 1, 1)) \o Lower(SubSeq(s, 2, Len(s)))

Whitespace == {" ", "\t", "\n", "\r"}

RECURSIVE LStrip(_)
LStrip(s) ==
    IF s # "" /\ SubSeq(s, 1, 1) \in Whitespace
    THEN LStrip(SubSeq(s, 2, Len(s)))
    ELSE s

RECURSIVE RStrip(_)
RStrip(s) ==
    IF s # "" /\ SubSeq(s, Len(s), Len(s)) \in Whitespace
    THEN RStrip(SubSeq(s, 1, Len(s) - 1))
    ELSE s

\* s.strip()
Strip(s) == RStrip(LStrip(s))

\* s.split(sep), sep non-empty
RECURSIVE Split(_, _)
Split(s, sep) ==
    IF ~Contains(s, sep) THEN <<s>>
    ELSE LET i == Find(s, sep)
         IN  <<SubSeq(s, 1, i - 1)>> \o Split(SubSeq(s, i + Len(sep), Len(s)), sep)

\* s.replace(old, new), old non-empty
RECURSIVE Replace(_, _, _)
Replace(s, old, new) ==
    IF ~Contains(s, old) THEN s
    ELSE LET i == Find(s, old)
         IN  SubSeq(s, 1, i - 1) \o new
                 \o Replace(SubSeq(s, i + Len(old), Len(s)), old, new)

\* sep.join(parts)
RECURSIVE Join(_, _)
Join(parts, sep) ==
    IF parts = <<>> THEN ""
    ELSE IF Len(parts) = 1 THEN parts[1]
    ELSE parts[1] \o sep \o Join(Tail(parts), sep)

----------------------------------------------------------------------------
(* OpenAIAPI.classify_deployment_and_cloud (utils/openai_api.py)           *)

\* A run of main() that is not going on: the state of mainVars while a library
\* function is called on its own.
MainIdle ==
    /\ env = [MY_GITHUB_TOKEN |-> "set", OPENROUTER_API_KEY |-> "set"]
    /\ limit = 0
    /\ inputCsv = <<>>
    /\ outputCsv = NoFile
    /\ df = <<>>
    /\ work_items = <<>>
    /\ futures = <<>>
    /\ mainPc = "idle"
    /\ cur = 0
    /\ dfLock = "free"
    /\ counterLock = "free"
    /\ counter = [success |-> 0, skip |-> 0, error |-> 0]
    /\ raised = <<>>
    /\ run = 1
    /\ threads = <<>>

\* config.COURSE_DEPLOYMENT_TYPES
COURSE_DEPLOYMENT_TYPES ==
    [dezoomcamp |-> <<"Batch", "Streaming">>,
     mlzoomcamp |-> <<"Batch", "Web Service", "Streaming">>,
     mlopszoomcamp |-> <<"Batch", "Web Service", "Streaming">>,
     llmzoomcamp |-> <<"Batch", "Web Service", "Streaming">>]

\* _default_classification()
DefaultClassification ==
    [deployment_type |-> "Unknown", deployment_reason |-> "Could not classify",
     cloud_provider |-> "Unknown", cloud_reason |-> "Could not classify"]

\* The labels the DEPLOYMENT branch appends to types, in the order of its ifs.
DeploymentTypes(value_lower) ==
    (IF Contains(value_lower, "batch") THEN <<"Batch">> ELSE <<>>)
        \o (IF Contains(value_lower, "stream") THEN <<"Streaming">> ELSE <<>>)
        \o (IF Contains(value_lower, "web") \/ Contains(value_lower, "service")
            THEN <<"Web Service">> ELSE <<>>)

\* The CLOUD branch.
CloudProvider(value) ==
    LET value_lower == Lower(value)
    IN  IF Contains(value_lower, "gcp") \/ Contains(value_lower, "google") THEN "GCP"
        ELSE IF Contains(value_lower, "aws") \/ Contains(value_lower, "amazon") THEN "AWS"
        ELSE IF Contains(value_lower, "azure") THEN "Azure"
        ELSE IF Contains(value_lower, "unknown") THEN "Unknown"
        ELSE value

\* The parser with the 'web'/'service' test dropped.
ParseLine_NoWebService(result, raw) ==
    LET line == Strip(raw)
    IN  IF StartsWith(line, "DEPLOYMENT:")
        THEN LET value_lower == Lower(Strip(Replace(line, "DEPLOYMENT:", "")))
                 types == (IF Contains(value_lower, "batch") THEN <<"Batch">> ELSE <<>>)
                     \o (IF Contains(value_lower, "stream") THEN <<"Streaming">> ELSE <<>>)
             IN  [result EXCEPT !.deployment_type =
                     IF types # <<>> THEN Join(types, ", ") ELSE "Unknown"]
        ELSE result

\* The body of the loop over the lines of the response.
ParseLine(result, raw) ==
    LET line == Strip(raw)
    IN  IF StartsWith(line, "DEPLOYMENT:")
        THEN LET types == DeploymentTypes(Lower(Strip(Replace(line, "DEPLOYMENT:", ""))))
             IN  [result EXCEPT !.deployment_type =
                     IF types # <<>> THEN Join(types, ", ") ELSE "Unknown"]
        ELSE IF StartsWith(line, "DEPLOYMENT_REASON:")
        THEN [result EXCEPT !.deployment_reason =
                 Strip(Replace(line, "DEPLOYMENT_REASON:", ""))]
        ELSE IF StartsWith(line, "CLOUD:")
        THEN [result EXCEPT !.cloud_provider =
                 CloudProvider(Strip(Replace(line, "CLOUD:", "")))]
        ELSE IF StartsWith(line, "CLOUD_REASON:")
        THEN [result EXCEPT !.cloud_reason = Strip(Replace(line, "CLOUD_REASON:", ""))]
        ELSE result

RECURSIVE ParseLines(_, _)
ParseLines(result, lines) ==
    IF lines = <<>> THEN result
    ELSE ParseLines(ParseLine(result, Head(lines)), Tail(lines))

\* _parse_classification_response(response)
ParseClassificationResponse(response) ==
    ParseLines([deployment_type |-> "Unknown", deployment_reason |-> "Unknown",
                cloud_provider |-> "Unknown", cloud_reason |-> "Unknown"],
               Split(Strip(response), "\n"))

\* What the LLM writes after "DEPLOYMENT:" and after "CLOUD:".
DeploymentValues ==
    {"Batch", "Streaming", "Web Service", "Batch, Streaming", "BATCH",
     "Batch and Web Service", "Streamlit dashboard", "Microservice", "Unknown", ""}

CloudValues == {"GCP", "Amazon Web Services", "Other"}

\* A response in the format the prompt asks for.
FormattedResponse(deployment, cloud) ==
    "DEPLOYMENT: " \o deployment \o "\nDEPLOYMENT_REASON: see the files\nCLOUD: "
        \o cloud \o "\nCLOUD_REASON: see the terraform files"

\* Responses that leave the format.
OddResponses ==
    {"I cannot classify this repository.",
     "  DEPLOYMENT: Streaming  \n",
     "deployment: Batch",
     "DEPLOYMENT_REASON: no batch job found\nCLOUD: Unknown",
     "DEPLOYMENT: Batch\nDEPLOYMENT: Web Service"}

LlmResponses ==
    {FormattedResponse(d, c) : d \in DeploymentValues, c \in CloudValues}
        \cup OddResponses

\* What self.llm does for the classifier: raise (a patched llm), return
\* (None, None), return an empty text or return a text.
LlmOutcomes ==
    {[raises |-> TRUE, response |-> NONE]}
        \cup {[raises |-> FALSE, response |-> r] : r \in {NONE, ""} \cup LlmResponses}

\* The valid_deployment_types argument: omitted (None) or a course's list.
TypeArguments ==
    {[is_none |-> TRUE, types |-> <<>>]}
        \cup {[is_none |-> FALSE, types |-> COURSE_DEPLOYMENT_TYPES[c]] :
                c \in DOMAIN COURSE_DEPLOYMENT_TYPES}

NoClassification ==
    [deployment_type |-> "", deployment_reason |-> "", cloud_provider |-> "",
     cloud_reason |-> ""]

InitClassify ==
    /\ MainIdle
    /\ \E a \in TypeArguments, l \in LlmOutcomes :
        call = [fn |-> "classify_deployment_and_cloud", pc |-> "enter",
                valid_deployment_types |-> a, llm |-> l, valid_types_str |-> "",
                response |-> "", ret |-> NoClassification]

InClassify(pc) == call.fn = "classify_deployment_and_cloud" /\ call.pc = pc

\* Lines 171-196: the default list for an omitted argument, and the part of the
\* prompt that names the valid types.
ClassifyBuildPrompt ==
    /\ InClassify("enter")
    /\ LET types == IF call.valid_deployment_types.is_none
                    THEN <<"Batch", "Streaming", "Web Service">>
                    ELSE call.valid_deployment_types.types
       IN  call' = [call EXCEPT !.pc = "try",
                        !.valid_deployment_types = [is_none |-> FALSE, types |-> types],
                        !.valid_types_str = Join(types, ", ")]
    /\ UNCHANGED mainVars

\* response, _ = self.llm(prompt, max_tokens=200)
ClassifyCallLlm ==
    /\ InClassify("try")
    /\ call' = IF call.llm.raises
               THEN [call EXCEPT !.pc = "except"]
               ELSE [call EXCEPT !.pc = "response", !.response = call.llm.response]
    /\ UNCHANGED mainVars

\* if not response: return self._default_classification()
ClassifyNoResponse ==
    /\ InClassify("response")
    /\ ~Truthy(call.response)
    /\ call' = [call EXCEPT !.pc = "returned", !.ret = DefaultClassification]
    /\ UNCHANGED mainVars

\* return self._parse_classification_response(response)
ClassifyParse ==
    /\ InClassify("response")
    /\ Truthy(call.response)
    /\ call' = [call EXCEPT !.pc = "returned",
                    !.ret = ParseClassificationResponse(call.response)]
    /\ UNCHANGED mainVars

\* The except branch letting the exception out.
ClassifyExcept_Reraises ==
    /\ InClassify("except")
    /\ call' = [call EXCEPT !.pc = "raised"]
    /\ UNCHANGED mainVars

\* except Exception: return self._default_classification()
ClassifyExcept ==
    /\ InClassify("except")
    /\ call' = [call EXCEPT !.pc = "returned", !.ret = DefaultClassification]
    /\ UNCHANGED mainVars

NextClassify ==
    \/ ClassifyBuildPrompt
    \/ ClassifyCallLlm
    \/ ClassifyNoResponse
    \/ ClassifyParse
    \/ ClassifyExcept

SpecClassify == InitClassify /\ [][NextClassify]_vars

----------------------------------------------------------------------------
(* Properties of the classifier (checked under SpecClassify)               *)

ClassifyReturned == InClassify("returned")

\* C13: for every LLM response, the deployment_type classify_deployment_and_cloud
\* returns is 'Unknown' or is made only of labels of the valid_deployment_types
\* it was called with; a label outside that list never appears.
C13_OnlyValidDeploymentTypes ==
    ClassifyReturned =>
        \/ call.ret.deployment_type = "Unknown"
        \/ LET labels == Split(call.ret.deployment_type, ", ")
               valid == call.valid_deployment_types.types
           IN  \A k \in 1..Len(labels) : \E v \in 1..Len(valid) : labels[k] = valid[v]

\* The lines of the response that start with 'DEPLOYMENT:', in order.
DeploymentLines(response) ==
    LET lines == Split(Strip(response), "\n")
    IN  SelectSeq([k \in 1..Len(lines) |-> Strip(lines[k])],
                  LAMBDA l : StartsWith(l, "DEPLOYMENT:"))

\* sub occurs in s, letter case ignored.
OccursIgnoringCase(s, sub) ==
    \E i \in 1..Len(s) : \E j \in i..Len(s) : Lower(SubSeq(s, i, j)) = sub

\* The labels named by the value of a DEPLOYMENT line.
LabelsIn(line) ==
    LET value == SubSeq(line, Len("DEPLOYMENT:") + 1, Len(line))
    IN  (IF OccursIgnoringCase(value, "batch") THEN {"Batch"} ELSE {})
            \cup (IF OccursIgnoringCase(value, "stream") THEN {"Streaming"} ELSE {})
            \cup (IF OccursIgnoringCase(value, "web") \/ OccursIgnoringCase(value, "service")
                  THEN {"Web Service"} ELSE {})

\* A set of labels written in the order Batch, Streaming, Web Service.
InFixedOrder(labels) ==
    CASE labels = {} -> "Unknown"
      [] labels = {"Batch"} -> "Batch"
      [] labels = {"Streaming"} -> "Streaming"
      [] labels = {"Web Service"} -> "Web Service"
      [] labels = {"Batch", "Streaming"} -> "Batch, Streaming"
      [] labels = {"Batch", "Web Service"} -> "Batch, Web Service"
      [] labels = {"Streaming", "Web Service"} -> "Streaming, Web Service"
      [] OTHER -> "Batch, Streaming, Web Service"

\* C14: for a response with a line that starts with 'DEPLOYMENT:', the parsed
\* deployment_type is the comma-joined list, in the order Batch, Streaming, Web
\* Service, of exactly the labels whose substring ('batch'; 'stream'; 'web' or
\* 'service') occurs case-insensitively in that line's value (the last such line
\* when there are several); it is 'Unknown' when none occurs or no such line exists.
C14_DeploymentTypeFromSubstrings ==
    (ClassifyReturned /\ Truthy(call.response)) =>
        LET dlines == DeploymentLines(call.response)
        IN  call.ret.deployment_type =
                IF dlines = <<>> THEN "Unknown"
                ELSE InFixedOrder(LabelsIn(dlines[Len(dlines)]))

\* 'Batch and Web Service' was parsed to the two labels in the fixed order.
C14_Witness ==
    /\ ClassifyReturned
    /\ Contains(call.response, "DEPLOYMENT: Batch and Web Service")
    /\ call.ret.deployment_type = "Batch, Web Service"

\* C15: when the LLM call returns null or empty text, or raises,
\* classify_deployment_and_cloud does not raise and returns exactly
\* deployment_type 'Unknown', deployment_reason 'Could not classify',
\* cloud_provider 'Unknown', cloud_reason 'Could not classify'.
C15_DefaultClassificationOnFailure ==
    /\ call.fn = "classify_deployment_and_cloud" => call.pc # "raised"
    /\ (ClassifyReturned /\ (call.llm.raises \/ call.llm.response \in {NONE, ""})) =>
           /\ call.ret.deployment_type = "Unknown"
           /\ call.ret.deployment_reason = "Could not classify"
           /\ call.ret.cloud_provider = "Unknown"
           /\ call.ret.cloud_reason = "Could not classify"

\* The call returned after self.llm raised.
C15_Witness ==
    /\ ClassifyReturned
    /\ call.llm.raises
    /\ call.ret.deployment_reason = "Could not classify"

----------------------------------------------------------------------------
(* OpenAIAPI.evaluate_title and evaluate_and_revise_titles                 *)

\* s.split(): the maximal runs of non-whitespace characters of s.
RECURSIVE SplitWords(_)
SplitWords(s) ==
    LET t == LStrip(s)
        ends == {i \in 1..Len(t) : SubSeq(t, i, i) \in Whitespace}
        n == IF ends = {} THEN Len(t) + 1
             ELSE CHOOSE i \in ends : \A j \in ends : i <= j
    IN  IF t = "" THEN <<>>
        ELSE <<SubSeq(t, 1, n - 1)>> \o SplitWords(SubSeq(t, n, Len(t)))

Digits == "0123456789"

\* \w
IsWordChar(c) ==
    Contains(LowerCase, c) \/ Contains(UpperCase, c) \/ Contains(Digits, c) \/ c = "_"

\* re.findall(r'\w+', s): the maximal runs of word characters of s.
RECURSIVE FindWords(_)
FindWords(s) ==
    IF s = "" THEN <<>>
    ELSE IF ~IsWordChar(SubSeq(s, 1, 1)) THEN FindWords(SubSeq(s, 2, Len(s)))
    ELSE LET ends == {i \in 1..Len(s) : ~IsWordChar(SubSeq(s, i, i))}
             n == IF ends = {} THEN Len(s) + 1
                  ELSE CHOOSE i \in ends : \A j \in ends : i <= j
         IN  <<SubSeq(s, 1, n - 1)>> \o FindWords(SubSeq(s, n, Len(s)))

\* How many elements of a sequence of booleans are true.
RECURSIVE CountTrue(_)
CountTrue(seq) ==
    IF seq = <<>> THEN 0
    ELSE (IF Head(seq) THEN 1 ELSE 0) + CountTrue(Tail(seq))

GenericTerms == <<"smart", "intelligent", "assistant", "hub", "companion">>

\* evaluate_title(title, project_url, summary)
EvaluateTitle(title, project_url, summary) ==
    LET word_count == Len(SplitWords(title))
        keywords == FindWords(Lower(project_url) \o " " \o Lower(summary))
        words == SplitWords(Lower(title))
        IsKeyword(word) == \E k \in 1..Len(keywords) : keywords[k] = word
    IN  (IF 3 <= word_count /\ word_count <= 5 THEN 2 ELSE -1)
            + CountTrue([k \in 1..Len(words) |-> IsKeyword(words[k])])
            - CountTrue([k \in 1..Len(GenericTerms) |->
                            Contains(Lower(title), GenericTerms[k])])
            + (IF Contains(title, ":") \/ Contains(title, "-") THEN 1 ELSE 0)

\* The project the titles are written for.
ProjectUrl == "https://github.com/user/taxi-pipeline"
ProjectSummary == "A batch pipeline for taxi trips data"

\* Candidate titles, from strong to generic.
TitleCandidates ==
    {"Taxi Trips Batch Pipeline", "Taxi Data: Insights", "Urban Taxi Explorer",
     "City Mobility Explorer", "Data Assistant", "Smart Hub"}

\* The scores dict over every candidate.
Score == [t \in TitleCandidates |-> EvaluateTitle(t, ProjectUrl, ProjectSummary)]

\* Longest candidate list the LLM returns.
MaxTitles == 2

\* Lists of distinct candidates (generate_multiple_titles returns list(set(..)),
\* in whatever order the set iterates).
TitleLists ==
    {l \in UNION {[1..n -> TitleCandidates] : n \in 0..MaxTitles} :
        \A i, j \in 1..Len(l) : l[i] = l[j] => i = j}

\* if scores[best_title] < 3
ReviseThreshold == 3

\* The test with <= for <.
NeedsRevision_AtMostThreshold(score) == score <= ReviseThreshold

NeedsRevision(score) == score < ReviseThreshold

\* max(scores, key=scores.get) over a dict with the keys in this order: the
\* first key that has the greatest score.
MaxByScore(keys) ==
    LET best == CHOOSE i \in 1..Len(keys) :
                    /\ \A j \in 1..Len(keys) : Score[keys[j]] <= Score[keys[i]]
                    /\ \A j \in 1..(i - 1) : Score[keys[j]] < Score[keys[i]]
    IN  keys[best]

\* The keys of {**scores, **new_scores}: the old keys, then the new ones.
CombinedKeys(titles, new_titles) ==
    titles \o SelectSeq(new_titles,
                        LAMBDA t : \A k \in 1..Len(titles) : titles[k] # t)

InitRevise ==
    /\ MainIdle
    /\ \E titles \in TitleLists, regenerated \in TitleLists :
        call = [fn |-> "evaluate_and_revise_titles", pc |-> "enter",
                titles |-> titles, llm |-> regenerated, new_titles |-> <<>>,
                regenerations |-> 0, best_title |-> "", raised |-> ""]

InRevise(pc) == call.fn = "evaluate_and_revise_titles" /\ call.pc = pc

\* best_title = max(scores, key=scores.get) on an empty dict
ReviseEmpty ==
    /\ InRevise("enter")
    /\ call.titles = <<>>
    /\ call' = [call EXCEPT !.pc = "raised",
                    !.raised = "ValueError: max() arg is an empty sequence"]
    /\ UNCHANGED mainVars

\* best_title = max(scores, key=scores.get)
ReviseScore ==
    /\ InRevise("enter")
    /\ call.titles # <<>>
    /\ call' = [call EXCEPT !.pc = "scored", !.best_title = MaxByScore(call.titles)]
    /\ UNCHANGED mainVars

\* The best score is not below 3: the if is skipped.
ReviseKeep ==
    /\ InRevise("scored")
    /\ ~NeedsRevision(Score[call.best_title])
    /\ call' = [call EXCEPT !.pc = "returned"]
    /\ UNCHANGED mainVars

\* new_titles = self.generate_multiple_titles(project_url, summary)
ReviseRegenerate ==
    /\ InRevise("scored")
    /\ NeedsRevision(Score[call.best_title])
    /\ call' = [call EXCEPT !.pc = "regenerated", !.new_titles = call.llm,
                    !.regenerations = @ + 1]
    /\ UNCHANGED mainVars

\* best_title = max(combined_scores, key=combined_scores.get)
ReviseCombine ==
    /\ InRevise("regenerated")
    /\ call' = [call EXCEPT !.pc = "returned",
                    !.best_title = MaxByScore(CombinedKeys(call.titles, call.new_titles))]
    /\ UNCHANGED mainVars

NextRevise ==
    \/ ReviseEmpty
    \/ ReviseScore
    \/ ReviseKeep
    \/ ReviseRegenerate
    \/ ReviseCombine

SpecRevise == InitRevise /\ [][NextRevise]_vars

----------------------------------------------------------------------------
(* Properties of the title scorer (checked under SpecRevise)               *)

Elements(seq) == {seq[k] : k \in 1..Len(seq)}

\* C16: given a non-empty candidate list, evaluate_and_revise_titles regenerates
\* exactly once when the best initial score is below 3 and not at all otherwise,
\* never a second time, and returns a title whose score is maximal among the
\* original and the regenerated candidates.
C16_OneBoundedRetry ==
    /\ call.fn = "evaluate_and_revise_titles" => call.regenerations <= 1
    /\ InRevise("returned") =>
        LET initial == {Score[t] : t \in Elements(call.titles)}
            union == Elements(call.titles) \cup Elements(call.new_titles)
        IN  /\ call.regenerations = IF \A sc \in initial : sc < 3 THEN 1 ELSE 0
            /\ call.regenerations = 0 => call.new_titles = <<>>
            /\ call.best_title \in union
            /\ \A t \in union : Score[t] <= Score[call.best_title]

\* Both candidates scored below 3, one regeneration was made, and a regenerated
\* title was returned.
C16_Witness ==
    /\ InRevise("returned")
    /\ Len(call.titles) = 2
    /\ call.regenerations = 1
    /\ call.best_title \notin Elements(call.titles)

\* C17: an empty candidate list at any stage of the title flow (the scorer handed
\* an empty list, or the regeneration returning no title) yields the title
\* 'Unknown' and never an exception.
C17_EmptyCandidatesGiveUnknown ==
    call.fn = "evaluate_and_revise_titles" =>
        /\ call.pc # "raised"
        /\ (call.pc = "returned" /\ call.regenerations = 1 /\ call.new_titles = <<>>)
               => call.best_title = "Unknown"

----------------------------------------------------------------------------
(* OpenAIAPI.generate_multiple_titles                                      *)

\* The length of the longest prefix of s made of characters of the class.
RECURSIVE PrefixLen(_, _)
PrefixLen(s, class) ==
    IF s # "" /\ SubSeq(s, 1, 1) \in class
    THEN 1 + PrefixLen(SubSeq(s, 2, Len(s)), class)
    ELSE 0

\* [-\d]
MarkerChars == {"-"} \cup {SubSeq(Digits, k, k) : k \in 1..Len(Digits)}

\* re.sub(r'^[-\d]+\.\s*', '', s): a leading run of dashes and digits is removed
\* together with the dot that follows it and the whitespace after the dot; a run
\* that no dot follows is left in place.
RemoveListMarker(s) ==
    LET n == PrefixLen(s, MarkerChars)
    IN  IF n >= 1 /\ n < Len(s) /\ SubSeq(s, n + 1, n + 1) = "."
        THEN LStrip(SubSeq(s, n + 2, Len(s)))
        ELSE s

\* The list comprehension: the stripped, non-blank lines, each without its marker.
RECURSIVE TitlesList(_)
TitlesList(lines) ==
    IF lines = <<>> THEN <<>>
    ELSE (IF Strip(Head(lines)) # ""
          THEN <<RemoveListMarker(Strip(Head(lines)))>>
          ELSE <<>>) \o TitlesList(Tail(lines))

\* set(filter(None, titles_list))
TitlesSet(text) == Elements(TitlesList(Split(text, "\n"))) \ {""}

\* The orders in which list(set(..)) can enumerate a set.
Orderings(set) ==
    {l \in [1..Cardinality(set) -> set] : \A i, j \in DOMAIN l : l[i] = l[j] => i = j}

\* build_prompt: the guidance chosen from deployment_type.
TechGuidance(deployment_type) ==
    IF ~Truthy(deployment_type) THEN ""
    ELSE IF Contains(Lower(deployment_type), "streaming") THEN "STREAMING"
    ELSE "BATCH"

\* Lines as the LLM writes them.
TitleLines ==
    {"1. NYC Taxi Analytics", "- NYC Taxi Analytics", "  2. Taxi Fare Pipeline  ",
     "Taxi Fare Pipeline", "10.", "  "}

\* Most lines in one LLM answer.
MaxTitleLines == 2

TitleTexts ==
    {Join(l, "\n") : l \in UNION {[1..n -> TitleLines] : n \in 1..MaxTitleLines}}

InitTitles ==
    /\ MainIdle
    /\ \E d \in {NONE, "Batch", "Batch, Streaming"}, text \in {NONE, ""} \cup TitleTexts :
        call = [fn |-> "generate_multiple_titles", pc |-> "enter",
                deployment_type |-> d, llm |-> text, guidance |-> "",
                titles |-> "", ret |-> <<>>]

InTitles(pc) == call.fn = "generate_multiple_titles" /\ call.pc = pc

\* title_prompt = self.build_prompt(..); titles, _ = self.llm(title_prompt, ..)
TitlesCallLlm ==
    /\ InTitles("enter")
    /\ call' = [call EXCEPT !.pc = "response",
                    !.guidance = TechGuidance(call.deployment_type),
                    !.titles = call.llm]
    /\ UNCHANGED mainVars

\* if titles: ... return list(set(filter(None, titles_list)))
TitlesParse ==
    /\ InTitles("response")
    /\ Truthy(call.titles)
    /\ \E l \in Orderings(TitlesSet(call.titles)) :
        call' = [call EXCEPT !.pc = "returned", !.ret = l]
    /\ UNCHANGED mainVars

\* return []
TitlesNone ==
    /\ InTitles("response")
    /\ ~Truthy(call.titles)
    /\ call' = [call EXCEPT !.pc = "returned", !.ret = <<>>]
    /\ UNCHANGED mainVars

NextTitles ==
    \/ TitlesCallLlm
    \/ TitlesParse
    \/ TitlesNone

SpecTitles == InitTitles /\ [][NextTitles]_vars

\* A numeric marker ('1.') or a dash bullet ('- ') at the start of a candidate.
BeginsWithListMarker(t) ==
    \/ StartsWith(t, "- ")
    \/ LET n == PrefixLen(t, MarkerChars \ {"-"})
       IN  n >= 1 /\ n < Len(t) /\ SubSeq(t, n + 1, n + 1) = "."

\* C18: for every LLM response, generate_multiple_titles returns candidates with
\* no duplicates, no empty strings and no leading list marker, numeric ('1.
\* Title') or dash bullet ('- Title').
C18_CandidatesWithoutListMarkers ==
    InTitles("returned") =>
        /\ \A i, j \in 1..Len(call.ret) : call.ret[i] = call.ret[j] => i = j
        /\ \A i \in 1..Len(call.ret) : call.ret[i] # ""
        /\ \A i \in 1..Len(call.ret) : ~BeginsWithListMarker(call.ret[i])

----------------------------------------------------------------------------
(* RepoAnalyzer.parse_github_url (utils/repo_analyzer.py)                  *)

\* s.rstrip('/')
RECURSIVE RStripSlash(_)
RStripSlash(s) ==
    IF s # "" /\ SubSeq(s, Len(s), Len(s)) = "/"
    THEN RStripSlash(SubSeq(s, 1, Len(s) - 1))
    ELSE s

\* s.split(sep, 1), sep occurring in s or not
SplitOnce(s, sep) ==
    IF ~Contains(s, sep) THEN <<s>>
    ELSE <<SubSeq(s, 1, Find(s, sep) - 1),
           SubSeq(s, Find(s, sep) + Len(sep), Len(s))>>

\* Owners, repositories and what may follow the repository in a URL.
Owners == {"user", "DataTalksClub", "tree"}
Repos == {"repo", "My-Project", "tree"}

\* branch and sub-directory (NONE: nothing follows the branch)
TreeParts ==
    {[branch |-> "main", sub |-> NONE], [branch |-> "main", sub |-> "project"],
     [branch |-> "dev", sub |-> "Src/Project"]}

\* The URLs of the form https://github.com/<owner>/<repo>[/|.git|/tree/..],
\* each with the parts it was built from.
GithubUrls ==
    {[url |-> "https://github.com/" \o o \o "/" \o r \o x,
      owner |-> o, repo |-> r, sub |-> NONE] :
        o \in Owners, r \in Repos, x \in {"", "/", ".git"}}
    \cup
    {[url |-> "https://github.com/" \o o \o "/" \o r \o "/tree/" \o t.branch
                  \o (IF t.sub = NONE THEN "" ELSE "/" \o t.sub) \o x,
      owner |-> o, repo |-> r, sub |-> t.sub] :
        o \in Owners, r \in Repos, t \in TreeParts, x \in {"", "/"}}

\* Strings that are not the URL of a GitHub repository.
OtherUrls ==
    {[url |-> u, owner |-> NONE, repo |-> NONE, sub |-> NONE] :
        u \in {"not-a-url", "", "https://gitlab.com/user/repo", "github.com/user/repo",
               "https://github.com/user", "https://github.com/"}}

NoParse == [owner |-> "", repo |-> "", subpath |-> ""]

InitParseUrl ==
    /\ MainIdle
    /\ \E input \in GithubUrls \cup OtherUrls :
        call = [fn |-> "parse_github_url", pc |-> "enter", input |-> input,
                url |-> input.url, subpath |-> NONE, ret |-> NoParse]

InParseUrl(pc) == call.fn = "parse_github_url" /\ call.pc = pc

\* url = url.rstrip('/'); subpath = None
UrlRstrip ==
    /\ InParseUrl("enter")
    /\ call' = [call EXCEPT !.pc = "tree", !.url = RStripSlash(call.url)]
    /\ UNCHANGED mainVars

\* if '/tree/' in url: the URL is cut at the first '/tree/', and what follows the
\* first '/' of the rest is the subpath.
UrlSplitTree ==
    /\ InParseUrl("tree")
    /\ Contains(call.url, "/tree/")
    /\ LET halves == SplitOnce(call.url, "/tree/")
           tree_parts == SplitOnce(halves[2], "/")
       IN  call' = [call EXCEPT !.pc = "git", !.url = halves[1],
                        !.subpath = IF Len(tree_parts) > 1 THEN tree_parts[2] ELSE NONE]
    /\ UNCHANGED mainVars

\* '/tree/' does not occur in the URL.
UrlNoTree ==
    /\ InParseUrl("tree")
    /\ ~Contains(call.url, "/tree/")
    /\ call' = [call EXCEPT !.pc = "git"]
    /\ UNCHANGED mainVars

\* if url.endswith('.git'): url = url[:-4]
UrlRemoveGit ==
    /\ InParseUrl("git")
    /\ call' = [call EXCEPT !.pc = "extract",
                    !.url = IF EndsWith(call.url, ".git")
                            THEN SubSeq(call.url, 1, Len(call.url) - 4)
                            ELSE call.url]
    /\ UNCHANGED mainVars

\* parts = url.replace('https://github.com/', '').split('/') and the two returns
UrlExtract ==
    /\ InParseUrl("extract")
    /\ LET parts == Split(Replace(call.url, "https://github.com/", ""), "/")
       IN  call' = [call EXCEPT !.pc = "returned",
                        !.ret = IF Len(parts) >= 2
                                THEN [owner |-> parts[1], repo |-> parts[2],
                                      subpath |-> call.subpath]
                                ELSE [owner |-> NONE, repo |-> NONE, subpath |-> NONE]]
    /\ UNCHANGED mainVars

NextParseUrl ==
    \/ UrlRstrip
    \/ UrlSplitTree
    \/ UrlNoTree
    \/ UrlRemoveGit
    \/ UrlExtract

SpecParseUrl == InitParseUrl /\ [][NextParseUrl]_vars

\* C19: for every URL https://github.com/<owner>/<repo>, optionally followed by a
\* trailing slash, '.git', '/tree/<branch>' or '/tree/<branch>/<sub/dir>',
\* parse_github_url returns (owner, repo, subpath), subpath being the path after
\* the branch with its case preserved, and null when nothing follows the branch.
C19_ParsesGithubUrls ==
    (InParseUrl("returned") /\ call.input.owner # NONE) =>
        /\ call.ret.owner = call.input.owner
        /\ call.ret.repo = call.input.repo
        /\ call.ret.subpath = call.input.sub

\* C20: for every string that is not a GitHub repository URL, parse_github_url
\* returns (null, null, null) and never raises.
C20_OtherStringsGiveNulls ==
    (InParseUrl("returned") /\ call.input.owner = NONE) =>
        /\ call.ret.owner = NONE
        /\ call.ret.repo = NONE
        /\ call.ret.subpath = NONE

----------------------------------------------------------------------------
(* Order of the calls and fate of stored values in process_single_project  *)
(* (checked under SpecItem)                                                *)

\* C25: whenever both classification and title generation happen for a row, the
\* Classifier call comes before every title-generation call, and the deployment
\* type passed to generate_multiple_titles is the one the Classifier returned, or
\* the row's stored type when the Classifier was not called.
C25_ClassifierBeforeTitles ==
    \A i \in Returns :
        LET f == futures[i]
            classified == CallsTo(f, {"classify_deployment_and_cloud"})
        IN  /\ \A c \in classified : \A t \in CallsTo(f, TitleCalls) : c < t
            /\ \A t \in CallsTo(f, {"generate_multiple_titles"}) :
                \A o \in AnswersOf(i) :
                    f.calls[t].arg = IF classified # {}
                                     THEN o.classification.deployment_type
                                     ELSE work_items[i].DeploymentType

\* A row without deployment type and title was classified Streaming, and
\* 'Streaming' was passed to generate_multiple_titles.
C25_Witness ==
    /\ mainPc = "item"
    /\ futures[1].state = "done"
    /\ work_items[1].DeploymentType = NAN
    /\ CallsTo(futures[1], {"classify_deployment_and_cloud"}) = {2}
    /\ \E t \in CallsTo(futures[1], {"generate_multiple_titles"}) :
          futures[1].calls[t].arg = "Streaming"

\* C27: process_single_project never replaces a row's project_title or Deployment
\* Type that is non-null and neither 'Unknown' nor 'Error' with 'Unknown' or
\* 'Error', whatever the outcome (success, no files fetched, exception).
C27_ValidValuesSurvive ==
    \A i \in Returns :
        /\ Valid(work_items[i].project_title) =>
               futures[i].result.project_title \notin {"Unknown", "Error"}
        /\ Valid(work_items[i].DeploymentType) =>
               futures[i].result.DeploymentType \notin {"Unknown", "Error"}

\* C28: if the Analyzer returns a file, the Classifier returns a valid deployment
\* type and title generation returns a title, processing a row that is not fully
\* processed (a stored 'Unknown' or 'Error' included) yields a fully processed row.
C28_GoodAnswersCompleteTheRow ==
    \A i \in Returns :
        \A o \in AnswersOf(i) :
            (/\ ~FullyProcessed(work_items[i])
             /\ o.fail = "none" /\ o.files
             /\ Valid(o.classification.deployment_type)
             /\ o.summary # "" /\ o.titles) =>
                /\ Valid(futures[i].result.project_title)
                /\ Valid(futures[i].result.DeploymentType)

----------------------------------------------------------------------------
(* The counters of a run (checked under Spec)                              *)

\* The futures the loop has counted: those it has finished with, and the current
\* one once its Counter call has made its increment.
Counted ==
    {i \in 1..Len(futures) :
        \/ futures[i].state = "handled"
        \/ i = cur /\ mainPc = "release_counter"}

----------------------------------------------------------------------------
(* RepoAnalyzer._should_fetch_file and the selection of fetch_key_files    *)

KEY_FILES ==
    <<"README.md", "readme.md", "README", "docker-compose.yml", "docker-compose.yaml",
      "requirements.txt", "pyproject.toml", "Dockerfile", "Makefile", "setup.py">>

KEY_PATTERNS ==
    <<".tf", "dags/", "terraform/", "airflow/", "kafka", "flink", "kestra",
      "prefect", "mage">>

EXCLUDED_EXTENSIONS ==
    {".png", ".jpg", ".jpeg", ".gif", ".svg", ".ico", ".webp", ".pdf", ".zip", ".gz",
     ".tar", ".rar", ".csv", ".parquet", ".pkl", ".h5", ".bin", ".exe", ".dll", ".so",
     ".lock", ".log", ".mp3", ".mp4", ".wav", ".avi"}

\* the directories excluded by lines 166-170
ExcludedDirs == {"/node_modules/", "/__pycache__/", "/.git/", "/venv/", "/.venv/"}

\* filepath.split('/')[-1]
LastSegment(filepath) ==
    LET parts == Split(filepath, "/") IN parts[Len(parts)]

\* _should_fetch_file(filepath, subpath); subpath NONE for None
ShouldFetchFile(filepath, subpath) ==
    LET fp_lower == Lower(filepath)
        subpath_lower == Lower(subpath)
        filename == Lower(LastSegment(filepath))
    IN  IF /\ Truthy(subpath)
           /\ ~StartsWith(fp_lower, subpath_lower \o "/")
           /\ fp_lower # subpath_lower
           /\ Contains(filepath, "/")
        THEN FALSE
        ELSE IF \E ext \in EXCLUDED_EXTENSIONS : EndsWith(fp_lower, ext) THEN FALSE
        ELSE IF \E x \in ExcludedDirs : Contains(fp_lower, x) THEN FALSE
        ELSE IF \E k \in 1..Len(KEY_FILES) : Contains(filename, Lower(KEY_FILES[k]))
        THEN TRUE
        ELSE \E k \in 1..Len(KEY_PATTERNS) : Contains(fp_lower, KEY_PATTERNS[k])

\* The characters of paths, in code point order.
CodePoints == "-./0123456789ABCDEFGHIJKLMNOPQRSTUVWXYZ_abcdefghijklmnopqrstuvwxyz"

\* a < b for Python strings
RECURSIVE StrLess(_, _)
StrLess(a, b) ==
    IF b = "" THEN FALSE
    ELSE IF a = "" THEN TRUE
    ELSE LET x == Find(CodePoints, SubSeq(a, 1, 1))
             y == Find(CodePoints, SubSeq(b, 1, 1))
         IN  IF x # y THEN x < y
             ELSE StrLess(SubSeq(a, 2, Len(a)), SubSeq(b, 2, Len(b)))

\* filepath.count('/')
Depth(filepath) == Cardinality(Occurrences(filepath, "/"))

\* sort_key without the subpath priority.
SortKey_NoSubpathPriority(filepath, subpath) == <<0, Depth(filepath), filepath>>

\* sort_key(filepath)
SortKey(filepath, subpath) ==
    <<IF Truthy(subpath) /\ StartsWith(Lower(filepath), Lower(subpath) \o "/")
      THEN -1 ELSE 0,
      Depth(filepath), filepath>>

\* k1 < k2 for the tuples sort_key returns
KeyLess(k1, k2) ==
    \/ k1[1] < k2[1]
    \/ k1[1] = k2[1] /\ k1[2] < k2[2]
    \/ k1[1] = k2[1] /\ k1[2] = k2[2] /\ StrLess(k1[3], k2[3])

\* files_to_fetch.sort(key=sort_key), the paths being distinct
RECURSIVE SortFiles(_, _)
SortFiles(files, subpath) ==
    IF files = {} THEN <<>>
    ELSE LET first == CHOOSE f \in files : \A g \in files \ {f} :
                          KeyLess(SortKey(f, subpath), SortKey(g, subpath))
         IN  <<first>> \o SortFiles(files \ {first}, subpath)

\* files_to_fetch[:max_files]
Truncate(seq, n) == SubSeq(seq, 1, IF Len(seq) < n THEN Len(seq) ELSE n)

\* max_files: int = 10
MaxFilesDefault == 10

\* Trees of blob paths: any of a few named paths, with or without a block of
\* Terraform files at the repository root.
NumFillers == 10

Filler(k) == SubSeq("ABCDEFGHIJKLMNOPQRSTUVWXYZ", k, k) \o ".tf"

Fillers == {Filler(k) : k \in 1..NumFillers}

NamedPaths ==
    {"README.md", "docker-compose.yml", "node_modules/pkg/README.md",
     "project/node_modules/pkg/README.md", "project/README.md",
     "docs/README.md", "src/app.py"}

Trees == {named \cup block : named \in SUBSET NamedPaths, block \in {{}, Fillers}}

Subpaths == {NONE, "project"}

InitSelect ==
    /\ MainIdle
    /\ \E tree \in Trees, subpath \in Subpaths :
        call = [fn |-> "fetch_key_files", pc |-> "tree", tree |-> tree,
                subpath |-> subpath, max_files |-> MaxFilesDefault,
                candidates |-> {}, files_to_fetch |-> <<>>, content |-> <<>>]

InSelect(pc) == call.fn = "fetch_key_files" /\ call.pc = pc

\* if not tree: return content
SelectNoTree ==
    /\ InSelect("tree")
    /\ call.tree = {}
    /\ call' = [call EXCEPT !.pc = "returned"]
    /\ UNCHANGED mainVars

\* files_to_fetch = [f for f in tree if self._should_fetch_file(f, subpath)]
\* The paths of a tree are distinct and the list is sorted next, so the order of
\* the tree is not kept.
SelectFilter ==
    /\ InSelect("tree")
    /\ call.tree # {}
    /\ call' = [call EXCEPT !.pc = "sort",
                    !.candidates = {f \in call.tree : ShouldFetchFile(f, call.subpath)}]
    /\ UNCHANGED mainVars

\* files_to_fetch.sort(key=sort_key)
SelectSort ==
    /\ InSelect("sort")
    /\ call' = [call EXCEPT !.pc = "truncate",
                    !.files_to_fetch = SortFiles(call.candidates, call.subpath)]
    /\ UNCHANGED mainVars

\* files_to_fetch = files_to_fetch[:max_files]
SelectTruncate ==
    /\ InSelect("truncate")
    /\ call' = [call EXCEPT !.pc = "selected",
                    !.files_to_fetch = Truncate(call.files_to_fetch, call.max_files)]
    /\ UNCHANGED mainVars

NextSelect ==
    \/ SelectNoTree
    \/ SelectFilter
    \/ SelectSort
    \/ SelectTruncate

SpecSelect == InitSelect /\ [][NextSelect]_vars

\* The path has a directory named node_modules above the file.
UnderNodeModules(filepath) ==
    LET parts == Split(filepath, "/")
    IN  \E k \in 1..(Len(parts) - 1) : parts[k] = "node_modules"

\* C21: a path under a node_modules/ directory at any depth, the repository root
\* included, is never kept by the file selector, whatever the file's name.
C21_NodeModulesExcluded ==
    (call.fn = "fetch_key_files" /\ call.pc # "tree") =>
        \A f \in call.candidates : ~UnderNodeModules(f)

\* C22: README.md and docker-compose.yml of the tree are among the paths selected
\* for fetching, for every tree, every subpath and the default maximum of 10.
C22_ReadmeAndComposeSelected ==
    (InSelect("selected") /\ call.max_files = MaxFilesDefault) =>
        \A f \in {"README.md", "docker-compose.yml"} \cap call.tree :
            f \in Elements(call.files_to_fetch)

\* The path lies under the subpath directory (case-insensitively).
UnderSubpath(filepath, subpath) ==
    subpath # NONE /\ StartsWith(Lower(filepath), Lower(subpath) \o "/")

\* f comes before g: files under the subpath first, then shallower paths, then
\* the lexically smaller path.
Precedes(f, g, subpath) ==
    \/ UnderSubpath(f, subpath) /\ ~UnderSubpath(g, subpath)
    \/ /\ UnderSubpath(f, subpath) = UnderSubpath(g, subpath)
       /\ \/ Depth(f) < Depth(g)
          \/ Depth(f) = Depth(g) /\ StrLess(f, g)

\* C26: the selected list has at most max_files entries and is the prefix of the
\* filtered candidates sorted by (under the subpath first, depth, lexical path);
\* being the only such list, the same tree and subpath always give the same one.
C26_SelectedIsSortedPrefix ==
    InSelect("selected") =>
        LET files == call.files_to_fetch
            kept == Elements(files)
        IN  /\ Len(files) <= call.max_files
            /\ kept \subseteq call.candidates
            /\ \A i, j \in 1..Len(files) :
                   i < j => Precedes(files[i], files[j], call.subpath)
            /\ \A g \in call.candidates \ kept :
                   /\ Len(files) = call.max_files
                   /\ \A f \in kept : Precedes(f, g, call.subpath)

C26_Witness ==
    /\ InSelect("selected")
    /\ Len(call.files_to_fetch) = call.max_files
    /\ call.candidates \ Elements(call.files_to_fetch) # {}
    /\ \E f, g \in Elements(call.files_to_fetch) :
           UnderSubpath(f, call.subpath) /\ ~UnderSubpath(g, call.subpath)

----------------------------------------------------------------------------
(* RepoAnalyzer.get_repo_tree                                              *)

\* for branch in ['main', 'master'], in the other order
Branches_MasterFirst == <<"master", "main">>

\* for branch in ['main', 'master']
Branches == <<"main", "master">>

Blob(path) == [path |-> path, type |-> "blob"]

Dir(path) == [path |-> path, type |-> "tree"]

\* Bodies of an OK response: JSON objects with or without the key 'tree', an
\* item without the key 'path', and a body that is not JSON.
TreeBodies ==
    {[tree |-> <<>>],
     [tree |-> <<Blob("README.md")>>],
     [tree |-> <<Dir("dags"), Blob("dags/etl.py"), Blob("README.md")>>],
     [tree |-> <<Dir("src")>>],
     [message |-> "no tree"],
     [tree |-> <<Blob("README.md"), [type |-> "blob"]>>],
     [notJson |-> TRUE]}

\* resp.json().get('tree', []) and the comprehension raise on this body.
BodyRaises(body) ==
    \/ "notJson" \in DOMAIN body
    \/ /\ "tree" \in DOMAIN body
       /\ \E k \in 1..Len(body.tree) : "path" \notin DOMAIN body.tree[k]

\* [item['path'] for item in tree if item['type'] == 'blob']
RECURSIVE BlobPathsOf(_)
BlobPathsOf(tree) ==
    IF tree = <<>> THEN <<>>
    ELSE (IF Head(tree).type = "blob" THEN <<Head(tree).path>> ELSE <<>>)
             \o BlobPathsOf(Tail(tree))

\* resp.json().get('tree', []) and the paths of its blobs
BlobPaths(body) ==
    IF "tree" \in DOMAIN body THEN BlobPathsOf(body.tree) ELSE <<>>

\* f'https://api.github.com/repos/{owner}/{repo}/git/trees/{branch}?recursive=1'
TreeUrl(owner, repo, branch) ==
    "https://api.github.com/repos/" \o owner \o "/" \o repo \o "/git/trees/"
        \o branch \o "?recursive=1"

InitTree ==
    /\ MainIdle
    /\ \E owner \in Owners, repo \in Repos :
        call = [fn |-> "get_repo_tree", pc |-> "request", owner |-> owner,
                repo |-> repo, branch |-> 1, requested |-> <<>>,
                responses |-> <<>>, ret |-> <<>>]

InTree(pc) == call.fn = "get_repo_tree" /\ call.pc = pc

\* The request of the current branch, with its response.
Requested(resp) ==
    [call EXCEPT !.requested =
                     Append(@, TreeUrl(call.owner, call.repo, Branches[call.branch])),
                 !.responses = Append(@, resp)]

\* requests.get raises: the except clause logs, the loop goes on.
TreeRequestRaises ==
    /\ InTree("request")
    /\ call.branch <= Len(Branches)
    /\ call' = [Requested([kind |-> "raises"]) EXCEPT !.branch = @ + 1]
    /\ UNCHANGED mainVars

\* resp.ok is false: the loop goes on.
TreeNotOk ==
    /\ InTree("request")
    /\ call.branch <= Len(Branches)
    /\ call' = [Requested([kind |-> "not_ok"]) EXCEPT !.branch = @ + 1]
    /\ UNCHANGED mainVars

\* resp.ok, and the body gives its blob paths: return them.
TreeOk ==
    /\ InTree("request")
    /\ call.branch <= Len(Branches)
    /\ \E body \in TreeBodies :
        /\ ~BodyRaises(body)
        /\ call' = [Requested([kind |-> "ok", body |-> body])
                        EXCEPT !.pc = "returned", !.ret = BlobPaths(body)]
    /\ UNCHANGED mainVars

\* resp.ok, and reading the body raises inside the try: the except clause logs,
\* the loop goes on.
TreeBodyRaises ==
    /\ InTree("request")
    /\ call.branch <= Len(Branches)
    /\ \E body \in TreeBodies :
        /\ BodyRaises(body)
        /\ call' = [Requested([kind |-> "ok", body |-> body]) EXCEPT !.branch = @ + 1]
    /\ UNCHANGED mainVars

\* return [] after the loop
TreeGiveUp ==
    /\ InTree("request")
    /\ call.branch > Len(Branches)
    /\ call' = [call EXCEPT !.pc = "returned", !.ret = <<>>]
    /\ UNCHANGED mainVars

NextTree ==
    \/ TreeRequestRaises
    \/ TreeNotOk
    \/ TreeOk
    \/ TreeBodyRaises
    \/ TreeGiveUp

SpecTree == InitTree /\ [][NextTree]_vars

\* The request failed: it raised, the status was not OK, or reading the body of
\* the response raised.
TreeFailed(resp) ==
    \/ resp.kind \in {"raises", "not_ok"}
    \/ resp.kind = "ok" /\ BodyRaises(resp.body)

\* C24: get_repo_tree requests main first and master only after the main request
\* failed; it returns the blob paths of the first successful response, and an
\* empty list, without raising, when both requests failed.
C24_MainThenMaster ==
    call.fn = "get_repo_tree" =>
        /\ LET main == TreeUrl(call.owner, call.repo, "main")
               master == TreeUrl(call.owner, call.repo, "master")
           IN  call.requested \in {<<>>, <<main>>, <<main, master>>}
        /\ Len(call.requested) = 2 => TreeFailed(call.responses[1])
        /\ call.pc \in {"request", "returned"}
        /\ call.pc = "returned" =>
            LET last == call.responses[Len(call.responses)]
            IN  IF TreeFailed(last)
                THEN Len(call.requested) = 2 /\ call.ret = <<>>
                ELSE /\ call.ret = BlobPaths(last.body)
                     /\ \A k \in 1..Len(call.ret) :
                            \E item \in Elements(last.body.tree) :
                                item = Blob(call.ret[k])

C24_Witness ==
    /\ InTree("returned")
    /\ Len(call.requested) = 2
    /\ call.responses[1].kind = "not_ok"
    /\ call.ret = <<"dags/etl.py", "README.md">>

C24_WitnessBothFail ==
    /\ InTree("returned")
    /\ TreeFailed(call.responses[1])
    /\ TreeFailed(call.responses[2])
    /\ call.ret = <<>>

----------------------------------------------------------------------------
(* The parallel fetch of RepoAnalyzer.fetch_key_files                      *)

FetchTrees == SUBSET {"README.md", "docker-compose.yml", "project/main.tf"} \ {{}}

\* What fetch_file_content gives for a path: the text of the file, an empty
\* text, None (no OK response, not a file, an exception it caught), or an
\* exception that leaves the worker.
RAISES == "<raises>"

FileText(path) == "text of " \o path

FetchOutcomes(path) == {FileText(path), "", NONE, RAISES}

\* if file_content:
HasContent(outcome) == outcome \notin {"", NONE, RAISES}

InitFetch ==
    /\ MainIdle
    /\ \E tree \in FetchTrees, subpath \in Subpaths :
        LET candidates == {f \in tree : ShouldFetchFile(f, subpath)}
            files_to_fetch == Truncate(SortFiles(candidates, subpath), MaxFilesDefault)
        IN  \E outcome \in [candidates -> UNION {FetchOutcomes(f) : f \in candidates}] :
                /\ \A f \in candidates : outcome[f] \in FetchOutcomes(f)
                /\ call = [fn |-> "fetch_files", pc |-> "submit", tree |-> tree,
                           subpath |-> subpath, files_to_fetch |-> files_to_fetch,
                           outcome |-> outcome, futures |-> <<>>, content |-> <<>>,
                           ret |-> <<>>]

InFetch(pc) == call.fn = "fetch_files" /\ call.pc = pc

\* future_to_path = {executor.submit(self.fetch_file_content, owner, repo, f): f ...}
FetchSubmit ==
    /\ InFetch("submit")
    /\ call' = [call EXCEPT !.pc = "loop",
                    !.futures = [k \in 1..Len(call.files_to_fetch) |-> "running"]]
    /\ UNCHANGED mainVars

\* A worker thread finishes fetch_file_content for one path.
FetchComplete ==
    /\ \E k \in 1..Len(call.files_to_fetch) :
        /\ InFetch("loop")
        /\ call.futures[k] = "running"
        /\ call' = [call EXCEPT !.futures[k] = "done"]
    /\ UNCHANGED mainVars

\* as_completed yields a future that is done: those done before the loop asks,
\* in the order of a set, the others as they finish.
Yielded(k) ==
    /\ InFetch("loop")
    /\ k \in DOMAIN call.futures
    /\ call.futures[k] = "done"

\* content[path] = file_content
SetItem(content, path, text) ==
    IF \E i \in 1..Len(content) : content[i].path = path
    THEN [i \in 1..Len(content) |->
              IF content[i].path = path THEN [path |-> path, text |-> text]
              ELSE content[i]]
    ELSE Append(content, [path |-> path, text |-> text])

\* file_content = future.result(); if file_content: content[path] = file_content
FetchStore ==
    /\ \E k \in 1..Len(call.files_to_fetch) :
        /\ Yielded(k)
        /\ HasContent(call.outcome[call.files_to_fetch[k]])
        /\ LET path == call.files_to_fetch[k]
           IN  call' = [call EXCEPT !.futures[k] = "handled",
                            !.content = SetItem(@, path, call.outcome[path])]
    /\ UNCHANGED mainVars

\* future.result() is None or empty: nothing is stored.
FetchSkip ==
    /\ \E k \in 1..Len(call.files_to_fetch) :
        /\ Yielded(k)
        /\ call.outcome[call.files_to_fetch[k]] \in {"", NONE}
        /\ call' = [call EXCEPT !.futures[k] = "handled"]
    /\ UNCHANGED mainVars

\* except Exception, leaving the loop instead of logging.
FetchCaught_Propagates ==
    /\ \E k \in 1..Len(call.files_to_fetch) :
        /\ Yielded(k)
        /\ call.outcome[call.files_to_fetch[k]] = RAISES
        /\ call' = [call EXCEPT !.pc = "raised", !.futures[k] = "handled"]
    /\ UNCHANGED mainVars

\* future.result() raises: except Exception logs, the loop goes on.
FetchCaught ==
    /\ \E k \in 1..Len(call.files_to_fetch) :
        /\ Yielded(k)
        /\ call.outcome[call.files_to_fetch[k]] = RAISES
        /\ call' = [call EXCEPT !.futures[k] = "handled"]
    /\ UNCHANGED mainVars

\* return content, once as_completed has yielded every future
FetchReturn ==
    /\ InFetch("loop")
    /\ \A k \in 1..Len(call.futures) : call.futures[k] = "handled"
    /\ call' = [call EXCEPT !.pc = "returned", !.ret = call.content]
    /\ UNCHANGED mainVars

NextFetch ==
    \/ FetchSubmit
    \/ FetchComplete
    \/ FetchStore
    \/ FetchSkip
    \/ FetchCaught
    \/ FetchReturn

SpecFetch == InitFetch /\ [][NextFetch]_vars

\* The paths of a mapping, in iteration order.
Keys(content) == [i \in 1..Len(content) |-> content[i].path]

\* C23: whatever fetches fail and however the fetches interleave, the returned
\* mapping holds exactly the selected paths whose fetch returned content, each
\* with its own content, and no failure raises to the caller.
C23_FailedFetchOnlyOmitsItsPath ==
    call.fn = "fetch_files" =>
        /\ call.pc # "raised"
        /\ \A i \in 1..Len(call.content) :
               /\ call.content[i].path \in Elements(call.files_to_fetch)
               /\ call.content[i].text = call.outcome[call.content[i].path]
               /\ \A j \in 1..Len(call.content) :
                      call.content[j].path = call.content[i].path => j = i
        /\ call.pc = "returned" =>
               /\ call.ret = call.content
               /\ Elements(Keys(call.ret)) =
                      {f \in Elements(call.files_to_fetch) : HasContent(call.outcome[f])}

C23_Witness ==
    /\ InFetch("returned")
    /\ \E f, g, h \in Elements(call.files_to_fetch) :
           /\ call.outcome[f] = RAISES
           /\ call.outcome[g] = NONE
           /\ Keys(call.ret) = <<h>>

\* content[:n]
Cut(text, n) == IF Len(text) > n THEN SubSeq(text, 1, n) ELSE text

\* The loop of classify_deployment_and_cloud over files_content.items()
RECURSIVE FormatEach(_)
FormatEach(content) ==
    IF content = <<>> THEN ""
    ELSE "\n--- " \o Head(content).path \o " ---\n" \o Cut(Head(content).text, 3000)
             \o "\n" \o FormatEach(Tail(content))

\* formatted, as it goes into the classification prompt
FormatFiles(content) ==
    LET formatted == FormatEach(content)
    IN  IF Len(formatted) > 12000
        THEN SubSeq(formatted, 1, 12000) \o "\n[truncated...]"
        ELSE formatted

\* The mapping of the run whose fetches complete in the order of submission.
RECURSIVE InSubmissionOrder(_, _)
InSubmissionOrder(files, outcome) ==
    IF files = <<>> THEN <<>>
    ELSE (IF HasContent(outcome[Head(files)])
          THEN <<[path |-> Head(files), text |-> outcome[Head(files)]]>>
          ELSE <<>>) \o InSubmissionOrder(Tail(files), outcome)

\* C29: for a fixed tree and fixed file contents, the returned mapping has the
\* same entries in the same iteration order for every interleaving of the
\* fetches, that of the run completing in submission order, and so has the
\* prompt text built from it.
C29_SameMappingForEveryInterleaving ==
    InFetch("returned") =>
        LET inOrder == InSubmissionOrder(call.files_to_fetch, call.outcome)
        IN  /\ call.ret = inOrder
            /\ FormatFiles(call.ret) = FormatFiles(inOrder)

\* Both orders of the same two files are returned.
C29_InOrder ==
    /\ InFetch("returned")
    /\ call.tree = {"README.md", "docker-compose.yml"}
    /\ Keys(call.ret) = <<"README.md", "docker-compose.yml">>

C29_OutOfOrder ==
    /\ InFetch("returned")
    /\ call.tree = {"README.md", "docker-compose.yml"}
    /\ Keys(call.ret) = <<"docker-compose.yml", "README.md">>

====
